---- MODULE Spec2Model ----
(***************************************************************************)
(* Model of the wire codec of src/util/messages.rs: the integer codec, the *)
(* length-prefixed sequence codec, and the byte sources and sinks they run *)
(* against.                                                                *)
(*                                                                         *)
(* Rust integers are wider than the integers of the model checker, so a    *)
(* natural number is a little-endian sequence of 16-bit limbs without      *)
(* trailing zero limbs (<<>> is 0), and an integer value is a record       *)
(* [neg, mag] of a sign and such a magnitude.                              *)
(***************************************************************************)
EXTENDS Integers, Sequences, FiniteSets, TLC

\* ------------------------------------------------------------------------
\* Wide naturals
\* ------------------------------------------------------------------------
BYTE == 2 ^ 8
BASE == BYTE * BYTE

Limb(a, i) == IF i <= Len(a) THEN a[i] ELSE 0

Max2(x, y) == IF x >= y THEN x ELSE y

RECURSIVE WNorm(_)
WNorm(a) ==
    IF a = <<>> THEN a
    ELSE IF a[Len(a)] = 0 THEN WNorm(SubSeq(a, 1, Len(a) - 1))
    ELSE a

\* n is a model integer below 2^31
WFromNat(n) == WNorm(<<n % BASE, n \div BASE>>)

\* defined for a < 2^31 only
WToNat(a) == Limb(a, 1) + BASE * Limb(a, 2)

RECURSIVE WAddFrom(_, _, _, _)
WAddFrom(a, b, i, carry) ==
    IF i > Max2(Len(a), Len(b))
    THEN (IF carry = 0 THEN <<>> ELSE <<carry>>)
    ELSE LET s == Limb(a, i) + Limb(b, i) + carry
         IN  <<s % BASE>> \o WAddFrom(a, b, i + 1, s \div BASE)

WAdd(a, b) == WNorm(WAddFrom(a, b, 1, 0))

\* a - b, for a >= b
RECURSIVE WSubFrom(_, _, _, _)
WSubFrom(a, b, i, borrow) ==
    IF i > Len(a) THEN <<>>
    ELSE LET d == Limb(a, i) - Limb(b, i) - borrow
         IN  IF d < 0
             THEN <<d + BASE>> \o WSubFrom(a, b, i + 1, 1)
             ELSE <<d>> \o WSubFrom(a, b, i + 1, 0)

WSub(a, b) == WNorm(WSubFrom(a, b, 1, 0))

\* k * a for a small multiplier k (k * BASE is a model integer)
RECURSIVE WMulFrom(_, _, _, _)
WMulFrom(k, a, i, carry) ==
    IF i > Len(a)
    THEN (IF carry = 0 THEN <<>> ELSE <<carry>>)
    ELSE LET p == k * a[i] + carry
         IN  <<p % BASE>> \o WMulFrom(k, a, i + 1, p \div BASE)

WMulSmall(k, a) == WNorm(WMulFrom(k, a, 1, 0))

\* a < b, comparing from the most significant limb down
RECURSIVE WLessFrom(_, _, _)
WLessFrom(a, b, i) ==
    IF i = 0 THEN FALSE
    ELSE IF Limb(a, i) # Limb(b, i) THEN Limb(a, i) < Limb(b, i)
    ELSE WLessFrom(a, b, i - 1)

WLess(a, b) == WLessFrom(a, b, Max2(Len(a), Len(b)))
WLeq(a, b) == ~WLess(b, a)

\* the low 32 bits of a: Rust's `as u32`
WTrunc32(a) == WNorm(<<Limb(a, 1), Limb(a, 2)>>)

W0 == <<>>
W1 == <<1>>
Pow2_32 == <<0, 0, 1>>
Pow2_64 == <<0, 0, 0, 0, 1>>
U32_MAX == <<BASE - 1, BASE - 1>>

\* ------------------------------------------------------------------------
\* Integer types and values
\* ------------------------------------------------------------------------
IntTypes == {"u8", "u16", "u32", "u64", "i64"}

\* the array literal of each macro instance: [0; 1], [0; 2], [0; 4], [0; 8]
Width(typ) ==
    CASE typ = "u8"  -> 1
      [] typ = "u16" -> 2
      [] typ = "u32" -> 4
      [] typ = "u64" -> 8
      [] typ = "i64" -> 8

\* mem::size_of::<T>() of the integer types
size_of(typ) == Width(typ)

Signed(typ) == typ = "i64"

Nat2(n) == [neg |-> FALSE, mag |-> WFromNat(n)]
Pos(m) == [neg |-> FALSE, mag |-> m]
Neg(m) == [neg |-> TRUE, mag |-> m]

\* the two's complement bit pattern of v, as a natural number
Pattern(v) == IF v.neg THEN WSub(Pow2_64, v.mag) ELSE v.mag

\* byte k of u, k = 0 the least significant
ByteAt(u, k) ==
    (Limb(u, (k \div 2) + 1) \div (IF k % 2 = 0 THEN 1 ELSE BYTE)) % BYTE


\* to_le_bytes: least significant byte first
to_le_bytes(typ, v) ==
    [i \in 1..Width(typ) |-> ByteAt(Pattern(v), i - 1)]

\* the bytes of the magnitude, the sign being dropped
to_be_bytes_abs(typ, v) ==
    [i \in 1..Width(typ) |-> ByteAt(v.mag, Width(typ) - i)]

\* <$typ>::to_be_bytes: most significant byte first
to_be_bytes(typ, v) ==
    [i \in 1..Width(typ) |-> ByteAt(Pattern(v), Width(typ) - i)]

\* the natural number whose big-endian bytes are buf
BeNat(buf) ==
    LET w == Len(buf)
        B(k) == IF k < w THEN buf[w - k] ELSE 0
    IN  WNorm([j \in 1..((w + 1) \div 2) |->
                  B(2 * (j - 1)) + BYTE * B(2 * (j - 1) + 1)])


\* from_be_bytes with the sign bit taken as a value bit
from_be_bytes_unsigned(typ, buf) == Pos(BeNat(buf))

\* <$typ>::from_be_bytes
from_be_bytes(typ, buf) ==
    LET u == BeNat(buf)
    IN  IF Signed(typ) /\ buf[1] >= BYTE \div 2
        THEN Neg(WSub(Pow2_64, u))
        ELSE Pos(u)

\* ------------------------------------------------------------------------
\* Byte streams
\*
\* A byte stream is a sequence of runs [chunk, n]: the bytes of chunk,
\* repeated n times (n a wide natural, n >= 1).  A buffer of a few bytes is
\* the single run [chunk |-> bytes, n |-> 1]; a run with a large n stands
\* for the output of a loop that writes the same element many times.
\* ------------------------------------------------------------------------
Run(c, n) == [chunk |-> c, n |-> n]

Flat(bytes) == IF bytes = <<>> THEN <<>> ELSE <<Run(bytes, W1)>>

\* append n copies of chunk c
AppendRun(st, c, n) ==
    IF st # <<>> /\ st[Len(st)].chunk = c
    THEN [st EXCEPT ![Len(st)].n = WAdd(@, n)]
    ELSE Append(st, Run(c, n))

\* the first w bytes of st (fewer when st is shorter) and what follows them
Taken(c, r) == [got |-> c \o r.got, rest |-> r.rest]

RECURSIVE Take(_, _)
Take(st, w) ==
    IF w = 0 \/ st = <<>> THEN [got |-> <<>>, rest |-> st]
    ELSE IF st[1].n # W1
    THEN Take(<<Run(st[1].chunk, W1), Run(st[1].chunk, WSub(st[1].n, W1))>>
                  \o Tail(st), w)
    ELSE IF Len(st[1].chunk) <= w
    THEN Taken(st[1].chunk, Take(Tail(st), w - Len(st[1].chunk)))
    ELSE [got  |-> SubSeq(st[1].chunk, 1, w),
          rest |-> <<Run(SubSeq(st[1].chunk, w + 1, Len(st[1].chunk)), W1)>>
                       \o Tail(st)]

\* the number of bytes of st, a wide natural
RECURSIVE SLen(_)
SLen(st) ==
    IF st = <<>> THEN W0
    ELSE WAdd(WMulSmall(Len(st[1].chunk), st[1].n), SLen(Tail(st)))

\* ------------------------------------------------------------------------
\* NetworkError and Result
\* ------------------------------------------------------------------------
ReadError(io) == [tag |-> "ReadError", io |-> io]
WriteError(io) == [tag |-> "WriteError", io |-> io]
DeserializeError(msg) == [tag |-> "DeserializeError", msg |-> msg]

Ok(v) == [ok |-> TRUE, val |-> v]
Err(e) == [ok |-> FALSE, err |-> e]
Unit == <<>>

\* ------------------------------------------------------------------------
\* Byte sinks (W: Write) and byte sources (R: Read)
\*
\* A sink is [data, room, err]: room = -1 is a growable in-memory buffer
\* (Vec<u8>); room >= 0 is the number of bytes the sink still accepts, after
\* which a write fails with the io error err.
\* A source is [data, end, short]: end is the io error of a read once data
\* is used up (UnexpectedEof at the end of a buffer, another kind for a
\* source that failed or was closed); short tells whether a read_exact that
\* fails has consumed the bytes it got ("drain") or none ("keep"), which
\* std::io::Read leaves unspecified.
\* ------------------------------------------------------------------------
MemSink == [data |-> <<>>, room |-> -1, err |-> "none"]

\* Write::write_all
write_all(fd, buf) ==
    IF fd.room = -1 \/ Len(buf) <= fd.room
    THEN [res |-> Ok(Unit),
          fd  |-> [fd EXCEPT !.data = AppendRun(@, buf, W1),
                             !.room = IF @ = -1 THEN -1 ELSE @ - Len(buf)]]
    ELSE [res |-> Err(fd.err),
          fd  |-> [fd EXCEPT
                     !.data = IF fd.room = 0 THEN @
                              ELSE AppendRun(@, SubSeq(buf, 1, fd.room), W1),
                     !.room = 0]]


\* Read::read in place of read_exact: a short read leaves the rest of the
\* zeroed buffer as it was and is not an error
ReadOf(fd, w, t) ==
    [res |-> Ok(t.got \o [i \in 1..(w - Len(t.got)) |-> 0]),
     fd  |-> [fd EXCEPT !.data = t.rest]]

\* Read::read_exact, t being the bytes the source can still give
ReadExactOf(fd, w, t) ==
    IF Len(t.got) = w
    THEN [res |-> Ok(t.got), fd |-> [fd EXCEPT !.data = t.rest]]
    ELSE [res |-> Err(fd.end),
          fd  |-> IF fd.short = "drain"
                  THEN [fd EXCEPT !.data = t.rest]
                  ELSE fd]

read_exact(fd, w) == ReadExactOf(fd, w, Take(fd.data, w))

\* ------------------------------------------------------------------------
\* impl_stacks_message_codec_for_int
\* ------------------------------------------------------------------------
\* .map_err(NetworkError::WriteError) on the outcome r of write_all
MapWriteErr(r) ==
    [res |-> IF r.res.ok THEN Ok(Unit) ELSE Err(WriteError(r.res.err)),
     fd  |-> r.fd]

\* consensus_serialize of the integer v of type typ
IntSerialize(typ, v, fd) == MapWriteErr(write_all(fd, to_be_bytes(typ, v)))

\* .map_err(NetworkError::ReadError)? and Ok(<$typ>::from_be_bytes(buf)) on
\* the outcome r of read_exact
FromRead(typ, r) ==
    [res |-> IF r.res.ok THEN Ok(from_be_bytes(typ, r.res.val))
             ELSE Err(ReadError(r.res.err)),
     fd  |-> r.fd]

\* consensus_deserialize of an integer of type typ
IntDeserialize(typ, fd) == FromRead(typ, read_exact(fd, Width(typ)))

write_next(typ, fd, item) == IntSerialize(typ, item, fd)

read_next(typ, fd) == IntDeserialize(typ, fd)

\* ------------------------------------------------------------------------
\* Vec<T>
\*
\* A vector is a sequence of runs [item, n]: item repeated n times, adjacent
\* runs holding different items, so that a vector has one representation
\* and vectors of more than 2^32 elements can be written down.
\* ------------------------------------------------------------------------
VRun(item, n) == [item |-> item, n |-> n]


\* Vec::insert(0, item) in place of Vec::push
push_front(ret, item) ==
    IF ret # <<>> /\ ret[1].item = item
    THEN [ret EXCEPT ![1].n = WAdd(@, W1)]
    ELSE <<VRun(item, W1)>> \o ret

\* Vec::push
push(ret, item) ==
    IF ret # <<>> /\ ret[Len(ret)].item = item
    THEN [ret EXCEPT ![Len(ret)].n = WAdd(@, W1)]
    ELSE Append(ret, VRun(item, W1))

\* Vec::len, a usize
RECURSIVE VecLen(_)
VecLen(s) == IF s = <<>> THEN W0 ELSE WAdd(s[1].n, VecLen(Tail(s)))

\* the vector of the elements of the sequence q: vec![q[1], q[2], ...]
Snoc(v, item) ==
    IF v # <<>> /\ v[Len(v)].item = item
    THEN [v EXCEPT ![Len(v)].n = WAdd(@, W1)]
    ELSE Append(v, VRun(item, W1))

RECURSIVE VecOf(_)
VecOf(q) ==
    IF q = <<>> THEN <<>>
    ELSE Snoc(VecOf(SubSeq(q, 1, Len(q) - 1)), q[Len(q)])

\* ------------------------------------------------------------------------
\* impl StacksMessageCodec for Vec<T>
\* ------------------------------------------------------------------------
\* net::MAX_MESSAGE_LEN, a u32 that messages.rs imports; its value is set
\* outside these sources, and the model takes a small one, so that vectors
\* on both sides of the limit can be written out
MAX_MESSAGE_LEN == 16

\* n iterations of `write_next(fd, &self[i])?` over n equal elements whose
\* encoding is buf: all n writes succeed in a growable sink or when n * w
\* bytes fit; otherwise the k writes that fit succeed and the next one fails
WriteRunOf(typ, item, n, fd, buf, k) ==
    IF fd.room = -1 \/ WLeq(n, WFromNat(k))
    THEN [res |-> Ok(Unit),
          fd  |-> [fd EXCEPT !.data = AppendRun(@, buf, n),
                             !.room = IF @ = -1 THEN -1
                                      ELSE @ - Len(buf) * WToNat(n)]]
    ELSE write_next(typ,
                    [fd EXCEPT !.data = IF k = 0 THEN @
                                        ELSE AppendRun(@, buf, WFromNat(k)),
                               !.room = @ - Len(buf) * k],
                    item)

WriteRun(typ, item, n, fd) ==
    WriteRunOf(typ, item, n, fd, to_be_bytes(typ, item),
               IF fd.room = -1 THEN 0 ELSE fd.room \div Width(typ))

\* the loop `for i in 0..self.len()` from element run i on; r is the
\* outcome of the writes of run i
RECURSIVE WriteItems(_, _, _, _)
RECURSIVE WriteItemsNext(_, _, _, _)
WriteItemsNext(typ, s, i, r) ==
    IF r.res.ok THEN WriteItems(typ, s, i + 1, r.fd) ELSE r

WriteItems(typ, s, i, fd) ==
    IF i > Len(s) THEN [res |-> Ok(Unit), fd |-> fd]
    ELSE WriteItemsNext(typ, s, i, WriteRun(typ, s[i].item, s[i].n, fd))

\* Vec<T>::consensus_serialize after `write_next(fd, &len)` with outcome h
VecSerializeItems(typ, s, h) ==
    IF ~h.res.ok THEN h ELSE WriteItems(typ, s, 1, h.fd)

\* Vec<T>::consensus_serialize
VecSerialize(typ, s, fd) ==
    VecSerializeItems(typ, s,
                      write_next("u32", fd, Pos(WTrunc32(VecLen(s)))))

TooManyItems(len, max_items) ==
    DeserializeError([text |-> "Array has too many items ({} > {}",
                      args |-> <<len, max_items>>])

IncorrectCount(len, num_items) ==
    DeserializeError([text |-> "Array has incorrect number of items ({} != {})",
                      args |-> <<len, num_items>>])

TooManyBytes(size, len) ==
    DeserializeError(
        [text |-> "Message occupies too many bytes (tried to allocate {}*{}={})",
         args |-> <<WFromNat(size), len, WMulSmall(size, len)>>])

NoAlloc == [done |-> FALSE, cap |-> W0]

\* the loop `for _i in 0..len`: todo elements are still to be decoded; r
\* is the outcome of T::consensus_deserialize(fd) for the next one
RECURSIVE ReadItems(_, _, _, _, _)
RECURSIVE ReadItemsNext(_, _, _, _, _)

\* `break` on a failed element in place of `?`: the elements read so far
\* are returned
ReadItemsNext_break(typ, r, todo, ret, tries) ==
    IF ~r.res.ok
    THEN [res |-> Ok(ret), fd |-> r.fd, tries |-> tries + 1]
    ELSE ReadItems(typ, r.fd, todo - 1, push(ret, r.res.val), tries + 1)

ReadItemsNext(typ, r, todo, ret, tries) ==
    IF ~r.res.ok
    THEN [res |-> r.res, fd |-> r.fd, tries |-> tries + 1]
    ELSE ReadItems(typ, r.fd, todo - 1, push(ret, r.res.val), tries + 1)

ReadItems(typ, fd, todo, ret, tries) ==
    IF todo = 0 THEN [res |-> Ok(ret), fd |-> fd, tries |-> tries]
    ELSE ReadItemsNext(typ, IntDeserialize(typ, fd), todo, ret, tries)


\* the at-most comparison written `len >= max_items`
ArityCheck_ge(len, num_items, max_items) ==
    IF WLess(W0, max_items)
    THEN (IF WLeq(max_items, len)
          THEN Err(TooManyItems(len, max_items))
          ELSE Ok(Unit))
    ELSE (IF len # num_items
          THEN Err(IncorrectCount(len, num_items))
          ELSE Ok(Unit))

\* the exact comparison written `len > num_items`
ArityCheck_gt(len, num_items, max_items) ==
    IF WLess(W0, max_items)
    THEN (IF WLess(max_items, len)
          THEN Err(TooManyItems(len, max_items))
          ELSE Ok(Unit))
    ELSE (IF WLess(num_items, len)
          THEN Err(IncorrectCount(len, num_items))
          ELSE Ok(Unit))

\* the arity check of read_next_vec: the error it returns, if any
ArityCheck(len, num_items, max_items) ==
    IF WLess(W0, max_items)
    THEN (IF WLess(max_items, len)
          THEN Err(TooManyItems(len, max_items))
          ELSE Ok(Unit))
    ELSE (IF len # num_items
          THEN Err(IncorrectCount(len, num_items))
          ELSE Ok(Unit))

\* the product computed in 32 bits
TooLarge_wrapped(typ, len) ==
    WLess(WFromNat(MAX_MESSAGE_LEN), WTrunc32(WMulSmall(size_of(typ), len)))

\* the size check of read_next_vec, computed in u128:
\* size_of::<T>() * len > MAX_MESSAGE_LEN
TooLarge(typ, len) ==
    WLess(WFromNat(MAX_MESSAGE_LEN), WMulSmall(size_of(typ), len))

\* a return of read_next_vec before Vec::with_capacity
Early(res, fd) == [res |-> res, fd |-> fd, alloc |-> NoAlloc, tries |-> 0]

\* read_next_vec from Vec::with_capacity(len) on; r is the outcome of the
\* element loop
VecItems(len, r) ==
    [res |-> r.res, fd |-> r.fd, alloc |-> [done |-> TRUE, cap |-> len],
     tries |-> r.tries]


\* the size check made after Vec::with_capacity(len)
VecChecked_late(typ, fd, len, arity) ==
    IF ~arity.ok THEN Early(arity, fd)
    ELSE IF TooLarge(typ, len)
    THEN [res |-> Err(TooManyBytes(size_of(typ), len)), fd |-> fd,
          alloc |-> [done |-> TRUE, cap |-> len], tries |-> 0]
    ELSE VecItems(len, ReadItems(typ, fd, WToNat(len), <<>>, 0))

\* read_next_vec after the length field len was read; arity is the outcome
\* of the arity check
VecChecked(typ, fd, len, arity) ==
    IF ~arity.ok THEN Early(arity, fd)
    ELSE IF TooLarge(typ, len)
    THEN Early(Err(TooManyBytes(size_of(typ), len)), fd)
    ELSE VecItems(len, ReadItems(typ, fd, WToNat(len), <<>>, 0))

\* read_next_vec after `u32::consensus_deserialize(fd)` with outcome h
VecFrom(typ, h, num_items, max_items) ==
    IF ~h.res.ok THEN Early(h.res, h.fd)
    ELSE VecChecked(typ, h.fd, h.res.val.mag,
                    ArityCheck(h.res.val.mag, num_items, max_items))

\* read_next_vec::<T, R>(fd, num_items, max_items); the result also tells
\* the capacity handed to Vec::with_capacity and the number of element
\* decodes that were started
read_next_vec(typ, fd, num_items, max_items) ==
    VecFrom(typ, IntDeserialize("u32", fd), num_items, max_items)

read_next_at_most(typ, fd, max_items) == read_next_vec(typ, fd, W0, max_items)

read_next_exact(typ, fd, num_items) == read_next_vec(typ, fd, num_items, W0)


\* the vector decoded with the source left as it was
VecDeserialize_peek(typ, fd) ==
    [read_next_at_most(typ, fd, U32_MAX) EXCEPT !.fd = fd]

\* Vec<T>::consensus_deserialize
VecDeserialize(typ, fd) == read_next_at_most(typ, fd, U32_MAX)

\* ------------------------------------------------------------------------
\* StacksMessageCodec::serialize_to_vec
\* ------------------------------------------------------------------------
\* a panic of the calling thread with the given message; no value is returned
Panicked(msg) == [ok |-> FALSE, err |-> [tag |-> "panic", msg |-> msg]]

\* .expect("BUG: serialization to buffer failed.") on the outcome r of
\* consensus_serialize(&mut bytes), then `bytes`
ExpectBytes(r) ==
    IF r.res.ok THEN [res |-> Ok(r.fd.data), fd |-> r.fd]
    ELSE [res |-> Panicked("BUG: serialization to buffer failed."),
          fd  |-> r.fd]


\* a buffer that takes no byte in place of `vec![]`
FullSink == [data |-> <<>>, room |-> 0, err |-> "WriteZero"]

\* `let mut bytes = vec![]`
NewBytes == MemSink

\* serialize_to_vec of the integer v
IntSerializeToVec(typ, v) == ExpectBytes(IntSerialize(typ, v, NewBytes))

\* serialize_to_vec of the vector s
VecSerializeToVec(typ, s) == ExpectBytes(VecSerialize(typ, s, NewBytes))

\* ------------------------------------------------------------------------
\* Inputs
\* ------------------------------------------------------------------------
MaxLen == 3
MaxTail == 4
MaxRoom == 6

IntVals(typ) ==
    CASE typ = "u8"  -> {Nat2(0), Nat2(1), Nat2(2), Nat2(BYTE - 1)}
      [] typ = "u16" -> {Nat2(0), Nat2(1), Nat2(BYTE + 2), Nat2(BASE - 1)}
      [] typ = "u32" -> {Nat2(0), Nat2(1), Pos(<<22136, 4660>>), Pos(U32_MAX)}
      [] typ = "u64" -> {Nat2(0), Nat2(1), Pos(Pow2_32),
                         Pos(<<1800, 1286, 772, 258>>),
                         Pos(WSub(Pow2_64, W1))}
      [] typ = "i64" -> {Nat2(0), Nat2(1), Neg(W1),
                         Neg(<<0, 0, 0, BASE \div 2>>),
                         Pos(WSub(<<0, 0, 0, BASE \div 2>>, W1))}

\* the element values of the vectors that are serialized
ElemVals(typ) ==
    CASE typ = "u8"  -> {Nat2(1), Nat2(2), Nat2(3)}
      [] typ = "u16" -> {Nat2(1), Nat2(BYTE + 2)}
      [] typ = "u32" -> {Nat2(3), Pos(<<22136, 4660>>)}
      [] typ = "u64" -> {Nat2(1), Pos(WSub(Pow2_64, W1))}
      [] typ = "i64" -> {Nat2(1), Neg(W1)}

Seqs(S, n) == UNION {[1..k -> S] : k \in 0..n}

\* element counts too large to write element by element
BigCounts ==
    {WFromNat(MAX_MESSAGE_LEN + 1), U32_MAX, Pow2_32, WAdd(Pow2_32, W1)}

Vecs(typ) ==
    {VecOf(q) : q \in Seqs(ElemVals(typ), MaxLen)}
    \cup {<<VRun(v, n)>> : v \in ElemVals(typ), n \in BigCounts}

\* the length fields an untrusted peer sends
RawLens ==
    {WFromNat(n) : n \in 0..(MaxLen + 1)}
    \cup {WFromNat(MAX_MESSAGE_LEN), WFromNat(MAX_MESSAGE_LEN + 1),
          <<0, BASE \div 8>>, U32_MAX}

\* the ceilings and expected counts a caller passes
Counts ==
    {WFromNat(n) : n \in 0..MaxLen}
    \cup {WFromNat(MAX_MESSAGE_LEN + 1), U32_MAX}

TailOf(k) == [i \in 1..k |-> i]

\* the byte strings an untrusted peer sends: a length field and a few bytes
\* after it, or fewer than four bytes
RawBytes ==
    {to_be_bytes("u32", Pos(len)) \o TailOf(k) : len \in RawLens, k \in 0..MaxTail}
    \cup {<<>>, <<0>>, <<0, 0, 1>>}

IoEnds == {"UnexpectedEof", "ConnectionAborted"}
IoShorts == {"keep", "drain"}
SinkErrs == {"WriteZero", "BrokenPipe"}

\* ------------------------------------------------------------------------
\* State
\* ------------------------------------------------------------------------
VARIABLES
    sink,     \* the byte sink being written
    wrote,    \* what was serialized into sink and with what result
    src,      \* the byte source being read
    origin,   \* where the bytes of src came from
    pre,      \* src before the last decode
    last,     \* the last operation and its arguments
    res,      \* its result
    alloc,    \* the capacity reserved by the last sequence decode
    tries,    \* the element decodes started by the last sequence decode
    ndec,     \* the decodes run on src so far
    tasks,    \* the codec calls that run side by side, each on its own
              \* source or sink
    conv      \* the error in hand and the conversions it went through

codecVars == <<sink, wrote, src, origin, pre, last, res, alloc, tries, ndec>>

vars == <<codecVars, tasks, conv>>

NoSrc == [data |-> <<>>, end |-> "UnexpectedEof", short |-> "keep"]
Nothing == [kind |-> "none", typ |-> "u8", val |-> <<>>]
NoOp == [op |-> "none", typ |-> "u8", arg |-> W0]

\* no call runs beside the one at hand, and no error is being converted
NoTasks == <<>>
NoConv == <<>>

Init ==
    /\ sink = MemSink
    /\ wrote = Nothing
    /\ src = NoSrc
    /\ origin = Nothing
    /\ pre = NoSrc
    /\ last = NoOp
    /\ res = Ok(Unit)
    /\ alloc = NoAlloc
    /\ tries = 0
    /\ ndec = 0
    /\ tasks = NoTasks
    /\ conv = NoConv

\* at the start the caller takes a sink: a growable buffer, or one with room
\* bytes
NewSink ==
    /\ last.op = "none"
    /\ \E fd \in {MemSink}
                   \cup [data : {<<>>}, room : 0..MaxRoom, err : SinkErrs] :
        /\ sink' = fd
        /\ wrote' = Nothing
        /\ src' = NoSrc
        /\ origin' = Nothing
        /\ pre' = NoSrc
        /\ last' = [NoOp EXCEPT !.op = "new"]
        /\ res' = Ok(Unit)
        /\ alloc' = NoAlloc
        /\ tries' = 0
        /\ ndec' = 0
        /\ UNCHANGED <<tasks, conv>>

\* v.consensus_serialize(&mut sink) for an integer v
SerializeInt ==
    /\ wrote.kind = "none"
    /\ origin.kind = "none"
    /\ \E typ \in IntTypes : \E v \in IntVals(typ) :
       \E r \in {IntSerialize(typ, v, sink)} :
           /\ sink' = r.fd
           /\ wrote' = [kind |-> "int", typ |-> typ, val |-> v]
           /\ last' = [op |-> "serialize_int", typ |-> typ, arg |-> W0]
           /\ res' = r.res
           /\ UNCHANGED <<src, origin, pre, alloc, tries, ndec, tasks, conv>>

\* s.consensus_serialize(&mut sink) for a vector s
SerializeVec ==
    /\ wrote.kind = "none"
    /\ origin.kind = "none"
    /\ \E typ \in IntTypes : \E s \in Vecs(typ) :
       \E r \in {VecSerialize(typ, s, sink)} :
           /\ sink' = r.fd
           /\ wrote' = [kind |-> "vec", typ |-> typ, val |-> s]
           /\ last' = [op |-> "serialize_vec", typ |-> typ, arg |-> W0]
           /\ res' = r.res
           /\ UNCHANGED <<src, origin, pre, alloc, tries, ndec, tasks, conv>>

\* v.serialize_to_vec() for an integer v; sink is the buffer it filled
SerializeIntToVec ==
    /\ last.op = "none"
    /\ \E typ \in IntTypes : \E v \in IntVals(typ) :
       \E r \in {IntSerializeToVec(typ, v)} :
           /\ sink' = r.fd
           /\ wrote' = [kind |-> "int", typ |-> typ, val |-> v]
           /\ last' = [op |-> "serialize_to_vec", typ |-> typ, arg |-> W0]
           /\ res' = r.res
           /\ UNCHANGED <<src, origin, pre, alloc, tries, ndec, tasks, conv>>

\* s.serialize_to_vec() for a vector s; sink is the buffer it filled
SerializeVecToVec ==
    /\ last.op = "none"
    /\ \E typ \in IntTypes : \E s \in Vecs(typ) :
       \E r \in {VecSerializeToVec(typ, s)} :
           /\ sink' = r.fd
           /\ wrote' = [kind |-> "vec", typ |-> typ, val |-> s]
           /\ last' = [op |-> "serialize_to_vec", typ |-> typ, arg |-> W0]
           /\ res' = r.res
           /\ UNCHANGED <<src, origin, pre, alloc, tries, ndec, tasks, conv>>

\* the caller reads back the buffer that a successful serialization filled
Flip ==
    /\ wrote.kind # "none"
    /\ sink.room = -1
    /\ res.ok
    /\ \E short \in IoShorts :
        /\ src' = [data |-> sink.data, end |-> "UnexpectedEof", short |-> short]
        /\ origin' = wrote
        /\ sink' = MemSink
        /\ wrote' = Nothing
        /\ pre' = NoSrc
        /\ last' = [NoOp EXCEPT !.op = "flip"]
        /\ res' = Ok(Unit)
        /\ alloc' = NoAlloc
        /\ tries' = 0
        /\ ndec' = 0
        /\ UNCHANGED <<tasks, conv>>

\* at the start bytes arrive from an untrusted peer; the source may end or
\* fail
Feed ==
    /\ last.op = "none"
    /\ \E bytes \in RawBytes, end \in IoEnds, short \in IoShorts :
        /\ src' = [data |-> Flat(bytes), end |-> end, short |-> short]
        /\ origin' = [kind |-> "raw", typ |-> "u8", val |-> bytes]
        /\ sink' = MemSink
        /\ wrote' = Nothing
        /\ pre' = NoSrc
        /\ last' = [NoOp EXCEPT !.op = "feed"]
        /\ res' = Ok(Unit)
        /\ alloc' = NoAlloc
        /\ tries' = 0
        /\ ndec' = 0
        /\ UNCHANGED <<tasks, conv>>

\* a decode runs on a source that was just handed over; what it leaves of
\* the source is in src
Readable ==
    /\ origin.kind # "none"
    /\ ndec = 0

\* <typ>::consensus_deserialize(&mut src)
DeserializeInt ==
    /\ Readable
    /\ \E typ \in IntTypes :
       \E r \in {IntDeserialize(typ, src)} :
           /\ src' = r.fd
           /\ pre' = src
           /\ last' = [op |-> "deserialize_int", typ |-> typ, arg |-> W0]
           /\ res' = r.res
           /\ alloc' = NoAlloc
           /\ tries' = 0
           /\ ndec' = ndec + 1
           /\ UNCHANGED <<sink, wrote, origin, tasks, conv>>

\* read_next_at_most::<_, typ>(&mut src, max_items)
ReadNextAtMost ==
    /\ Readable
    /\ \E typ \in IntTypes, max_items \in Counts :
       \E r \in {read_next_at_most(typ, src, max_items)} :
           /\ src' = r.fd
           /\ pre' = src
           /\ last' = [op |-> "read_next_at_most", typ |-> typ,
                       arg |-> max_items]
           /\ res' = r.res
           /\ alloc' = r.alloc
           /\ tries' = r.tries
           /\ ndec' = ndec + 1
           /\ UNCHANGED <<sink, wrote, origin, tasks, conv>>

\* read_next_exact::<_, typ>(&mut src, num_items)
ReadNextExact ==
    /\ Readable
    /\ \E typ \in IntTypes, num_items \in Counts :
       \E r \in {read_next_exact(typ, src, num_items)} :
           /\ src' = r.fd
           /\ pre' = src
           /\ last' = [op |-> "read_next_exact", typ |-> typ,
                       arg |-> num_items]
           /\ res' = r.res
           /\ alloc' = r.alloc
           /\ tries' = r.tries
           /\ ndec' = ndec + 1
           /\ UNCHANGED <<sink, wrote, origin, tasks, conv>>

\* Vec::<typ>::consensus_deserialize(&mut src)
DeserializeVec ==
    /\ Readable
    /\ \E typ \in IntTypes :
       \E r \in {VecDeserialize(typ, src)} :
           /\ src' = r.fd
           /\ pre' = src
           /\ last' = [op |-> "deserialize_vec", typ |-> typ, arg |-> U32_MAX]
           /\ res' = r.res
           /\ alloc' = r.alloc
           /\ tries' = r.tries
           /\ ndec' = ndec + 1
           /\ UNCHANGED <<sink, wrote, origin, tasks, conv>>

Next ==
    \/ NewSink
    \/ SerializeInt
    \/ SerializeVec
    \/ SerializeIntToVec
    \/ SerializeVecToVec
    \/ Flip
    \/ Feed
    \/ DeserializeInt
    \/ ReadNextAtMost
    \/ ReadNextExact
    \/ DeserializeVec

Spec == Init /\ [][Next]_vars

\* ------------------------------------------------------------------------
\* Codec calls side by side
\*
\* The codec is made of free functions and trait methods without static or
\* shared data: a call works on its arguments and its locals only.  A task
\* is one call with its own source fd (fd0 at the start) or its own sink
\* out; it advances by one read or write call of the code at a time, and
\* the steps of two tasks interleave in every order.
\* ------------------------------------------------------------------------
TaskIds == {1, 2}

MaxArg == 2

\* the sources the tasks read
TaskSources ==
    {[data |-> Flat(<<>>), end |-> "UnexpectedEof", short |-> "keep"],
     [data |-> Flat(<<0, 0, 1>>), end |-> "ConnectionAborted",
      short |-> "drain"],
     [data |-> Flat(<<0, 0, 0, 2, 1, 2, 3>>), end |-> "UnexpectedEof",
      short |-> "drain"],
     [data |-> Flat(<<0, 0, 0, 2, 1, 2, 3>>), end |-> "ConnectionAborted",
      short |-> "keep"],
     [data |-> Flat(<<0, 0, 0, 2, 1, 2, 3, 4>>), end |-> "UnexpectedEof",
      short |-> "keep"],
     [data |-> Flat(<<255, 255, 255, 255, 1, 2, 3, 4>>),
      end |-> "ConnectionAborted", short |-> "keep"]}

TaskArgs == {WFromNat(n) : n \in 0..MaxArg} \cup {U32_MAX}

NewTask(op, typ, arg, val, fd) ==
    [op |-> op, typ |-> typ, arg |-> arg, val |-> val, fd0 |-> fd, fd |-> fd,
     out |-> MemSink, pc |-> "ready", todo |-> 0, ret |-> <<>>,
     res |-> Ok(Unit)]

\* the calls a task can be
TaskInits ==
    UNION {{NewTask("serialize_int", typ, W0, v, NoSrc) : v \in IntVals(typ)} :
              typ \in IntTypes}
    \cup {NewTask("deserialize_int", typ, W0, Nat2(0), fd) :
            typ \in IntTypes, fd \in TaskSources}
    \cup {NewTask(op, typ, arg, Nat2(0), fd) :
            op \in {"read_next_at_most", "read_next_exact"},
            typ \in {"u8", "u16"}, arg \in TaskArgs, fd \in TaskSources}

InitTasks ==
    /\ sink = MemSink
    /\ wrote = Nothing
    /\ src = NoSrc
    /\ origin = Nothing
    /\ pre = NoSrc
    /\ last = NoOp
    /\ res = Ok(Unit)
    /\ alloc = NoAlloc
    /\ tries = 0
    /\ ndec = 0
    /\ conv = NoConv
    /\ tasks \in [TaskIds -> TaskInits]


\* one source that every task reads, in place of the caller's own
SourceOf_shared(ts, i) == ts[1].fd

\* `fd: &mut R`: the source a call reads is the one its caller passed
SourceOf(ts, i) == ts[i].fd

Finished(t, r) == [t EXCEPT !.fd = r.fd, !.res = r.res, !.pc = "done"]

\* the integer consensus_serialize of task i: one write_all
TaskWrite(i) ==
    /\ tasks[i].pc = "ready"
    /\ tasks[i].op = "serialize_int"
    /\ \E r \in {IntSerialize(tasks[i].typ, tasks[i].val, tasks[i].out)} :
        tasks' = [tasks EXCEPT ![i] = [@ EXCEPT !.out = r.fd, !.res = r.res,
                                                !.pc = "done"]]
    /\ UNCHANGED <<codecVars, conv>>

\* the integer consensus_deserialize of task i: one read_exact
TaskReadInt(i) ==
    /\ tasks[i].pc = "ready"
    /\ tasks[i].op = "deserialize_int"
    /\ \E r \in {IntDeserialize(tasks[i].typ, SourceOf(tasks, i))} :
        tasks' = [tasks EXCEPT ![i] = Finished(@, r)]
    /\ UNCHANGED <<codecVars, conv>>

\* the arguments read_next_at_most and read_next_exact pass to read_next_vec
NumItems(t) == IF t.op = "read_next_exact" THEN t.arg ELSE W0
MaxItems(t) == IF t.op = "read_next_at_most" THEN t.arg ELSE W0

\* read_next_vec from the outcome h of reading the length field up to the
\* element loop: it returns, or it has len elements to read
AfterLen(t, h, arity) ==
    IF ~h.res.ok THEN Finished(t, h)
    ELSE IF ~arity.ok THEN Finished(t, [res |-> arity, fd |-> h.fd])
    ELSE IF TooLarge(t.typ, h.res.val.mag)
    THEN Finished(t, [res |-> Err(TooManyBytes(size_of(t.typ),
                                               h.res.val.mag)),
                      fd  |-> h.fd])
    ELSE IF h.res.val.mag = W0
    THEN Finished(t, [res |-> Ok(<<>>), fd |-> h.fd])
    ELSE [t EXCEPT !.fd = h.fd, !.pc = "items",
                   !.todo = WToNat(h.res.val.mag)]

\* read_next_vec of task i: the read of the length field and the two checks
TaskReadLen(i) ==
    /\ tasks[i].pc = "ready"
    /\ tasks[i].op \in {"read_next_at_most", "read_next_exact"}
    /\ \E h \in {IntDeserialize("u32", SourceOf(tasks, i))} :
       \E arity \in {IF h.res.ok
                     THEN ArityCheck(h.res.val.mag, NumItems(tasks[i]),
                                     MaxItems(tasks[i]))
                     ELSE Ok(Unit)} :
        tasks' = [tasks EXCEPT ![i] = AfterLen(@, h, arity)]
    /\ UNCHANGED <<codecVars, conv>>

\* one turn of the loop `for _i in 0..len` on the outcome r of the element
\* decode
AfterItem(t, r) ==
    IF ~r.res.ok THEN Finished(t, r)
    ELSE IF t.todo = 1
    THEN Finished(t, [res |-> Ok(push(t.ret, r.res.val)), fd |-> r.fd])
    ELSE [t EXCEPT !.fd = r.fd, !.todo = @ - 1,
                   !.ret = push(t.ret, r.res.val)]

\* read_next_vec of task i: the read of the next element
TaskReadItem(i) ==
    /\ tasks[i].pc = "items"
    /\ \E r \in {IntDeserialize(tasks[i].typ, SourceOf(tasks, i))} :
        tasks' = [tasks EXCEPT ![i] = AfterItem(@, r)]
    /\ UNCHANGED <<codecVars, conv>>

NextTasks ==
    \E i \in TaskIds :
        \/ TaskWrite(i)
        \/ TaskReadInt(i)
        \/ TaskReadLen(i)
        \/ TaskReadItem(i)

SpecTasks == InitTasks /\ [][NextTasks]_vars

\* ------------------------------------------------------------------------
\* Vectors written one after the other and read back
\*
\* tasks holds the vectors written into sink, in order; ndec counts the
\* decodes run on src.
\* ------------------------------------------------------------------------
MaxFrame == 2

FrameTypes == {"u8", "u16"}

Frames ==
    UNION {{[typ |-> typ, val |-> VecOf(q)] :
               q \in Seqs(ElemVals(typ), MaxFrame)} : typ \in FrameTypes}

\* f.val.consensus_serialize(&mut sink), behind what sink holds
WriteFrame ==
    /\ origin.kind = "none"
    /\ Len(tasks) < 2
    /\ \E f \in Frames :
       \E r \in {VecSerialize(f.typ, f.val, sink)} :
           /\ sink' = r.fd
           /\ wrote' = [kind |-> "vec", typ |-> f.typ, val |-> f.val]
           /\ last' = [op |-> "serialize_vec", typ |-> f.typ, arg |-> W0]
           /\ res' = r.res
           /\ tasks' = Append(tasks, f)
           /\ UNCHANGED <<src, origin, pre, alloc, tries, ndec, conv>>

\* the buffer is handed to a reader, with k more bytes behind the vectors
HandOver ==
    /\ origin.kind = "none"
    /\ Len(tasks) = 2
    /\ \E k \in 0..MaxTail :
        /\ src' = [data  |-> IF k = 0 THEN sink.data
                             ELSE AppendRun(sink.data, TailOf(k), W1),
                   end   |-> "UnexpectedEof",
                   short |-> "keep"]
        /\ origin' = [kind |-> "frames", typ |-> "u8", val |-> TailOf(k)]
        /\ sink' = MemSink
        /\ wrote' = Nothing
        /\ pre' = NoSrc
        /\ last' = [NoOp EXCEPT !.op = "flip"]
        /\ res' = Ok(Unit)
        /\ alloc' = NoAlloc
        /\ tries' = 0
        /\ ndec' = 0
        /\ UNCHANGED <<tasks, conv>>

\* Vec::<typ>::consensus_deserialize(&mut src), typ being the type of the
\* next vector that was written; a second decode follows a first that
\* succeeded
ReadFrame ==
    /\ origin.kind = "frames"
    /\ ndec < 2
    /\ res.ok
    /\ \E r \in {VecDeserialize(tasks[ndec + 1].typ, src)} :
        /\ src' = r.fd
        /\ pre' = src
        /\ last' = [op |-> "deserialize_vec", typ |-> tasks[ndec + 1].typ,
                    arg |-> U32_MAX]
        /\ res' = r.res
        /\ alloc' = r.alloc
        /\ tries' = r.tries
        /\ ndec' = ndec + 1
        /\ UNCHANGED <<sink, wrote, origin, tasks, conv>>

NextFrames ==
    \/ WriteFrame
    \/ HandOver
    \/ ReadFrame

SpecFrames == Init /\ [][NextFrames]_vars

\* ------------------------------------------------------------------------
\* The error taxonomy (util/errors.rs)
\*
\* A value of an error enum is [enum, tag, args]: the enum, the variant and
\* the payloads in order.  Payloads are records too: a String is [str], a
\* u64 is [u64], an ExecutionCost is [runtime], an Option is [some] or
\* [some, v], an error of a library (io, rusqlite, serde_json) is [lib, e].
\* CheckError and ParseError are structs.
\* ------------------------------------------------------------------------
E(enum, tag, args) == [enum |-> enum, tag |-> tag, args |-> args]

Str(s) == [str |-> s]
U64(n) == [u64 |-> WFromNat(n)]
None == [some |-> FALSE]
Some(v) == [some |-> TRUE, v |-> v]
List(q) == [list |-> q]
Bool(b) == [bool |-> b]

\* an ExecutionCost, by its runtime dimension
Cost(n) == [runtime |-> WFromNat(n)]

\* ExecutionCost::max_value(): every dimension is u64::MAX
ExecutionCost_max_value == [runtime |-> WSub(Pow2_64, W1)]

\* Diagnostic::err(&err): the diagnostic of err, without spans
Diagnostic_err(err) == [level |-> "Error", of |-> err, spans |-> <<>>]

\* CheckError::new
CheckError_new(err) ==
    [struct |-> "CheckError", err |-> err, expressions |-> None,
     diagnostic |-> Diagnostic_err(err)]

\* CheckError::set_expression on a fresh CheckError
CheckError_near(err, expr) ==
    [struct |-> "CheckError", err |-> err, expressions |-> Some(List(<<expr>>)),
     diagnostic |-> [Diagnostic_err(err) EXCEPT !.spans = <<expr>>]]

\* ParseError::new
ParseError_new(err) ==
    [struct |-> "ParseError", err |-> err, pre_expressions |-> None,
     diagnostic |-> Diagnostic_err(err)]

\* ParseError::set_pre_expression on a fresh ParseError
ParseError_near(err, expr) ==
    [struct |-> "ParseError", err |-> err, pre_expressions |-> Some(List(<<expr>>)),
     diagnostic |-> [Diagnostic_err(err) EXCEPT !.spans = <<expr>>]]


\* the operands of CostBalanceExceeded taken in the other order
CheckErrors_from_CostErrors_swapped(err) ==
    CASE err.tag = "CostOverflow" -> E("CheckErrors", "CostOverflow", <<>>)
      [] err.tag = "CostBalanceExceeded" ->
            E("CheckErrors", "CostBalanceExceeded",
              <<err.args[2], err.args[1]>>)
      [] err.tag = "MemoryBalanceExceeded" ->
            E("CheckErrors", "MemoryBalanceExceeded",
              <<err.args[1], err.args[2]>>)
      [] err.tag = "CostComputationFailed" ->
            E("CheckErrors", "CostComputationFailed", <<err.args[1]>>)
      [] err.tag = "CostContractLoadFailure" ->
            E("CheckErrors", "CostComputationFailed",
              <<Str("Failed to load cost contract")>>)

\* impl From<CostErrors> for CheckErrors
CheckErrors_from_CostErrors(err) ==
    CASE err.tag = "CostOverflow" -> E("CheckErrors", "CostOverflow", <<>>)
      [] err.tag = "CostBalanceExceeded" ->
            E("CheckErrors", "CostBalanceExceeded",
              <<err.args[1], err.args[2]>>)
      [] err.tag = "MemoryBalanceExceeded" ->
            E("CheckErrors", "MemoryBalanceExceeded",
              <<err.args[1], err.args[2]>>)
      [] err.tag = "CostComputationFailed" ->
            E("CheckErrors", "CostComputationFailed", <<err.args[1]>>)
      [] err.tag = "CostContractLoadFailure" ->
            E("CheckErrors", "CostComputationFailed",
              <<Str("Failed to load cost contract")>>)

\* impl From<CheckErrors> for CheckError
CheckError_from_CheckErrors(err) == CheckError_new(err)

\* impl From<CostErrors> for CheckError
CheckError_from_CostErrors(err) ==
    CheckError_from_CheckErrors(CheckErrors_from_CostErrors(err))

\* impl From<ParseErrors> for ParseError
ParseError_from_ParseErrors(err) == ParseError_new(err)

\* impl From<CostErrors> for ParseError
ParseError_from_CostErrors(err) ==
    CASE err.tag = "CostOverflow" ->
            ParseError_new(E("ParseErrors", "CostOverflow", <<>>))
      [] err.tag = "CostBalanceExceeded" ->
            ParseError_new(E("ParseErrors", "CostBalanceExceeded",
                             <<err.args[1], err.args[2]>>))
      [] err.tag = "MemoryBalanceExceeded" ->
            ParseError_new(E("ParseErrors", "MemoryBalanceExceeded",
                             <<err.args[1], err.args[2]>>))
      [] err.tag = "CostComputationFailed" ->
            ParseError_new(E("ParseErrors", "CostComputationFailed",
                             <<err.args[1]>>))
      [] err.tag = "CostContractLoadFailure" ->
            ParseError_new(E("ParseErrors", "CostComputationFailed",
                             <<Str("Failed to load cost contract")>>))

ClarityError_CostError(a, b) == E("ClarityError", "CostError", <<a, b>>)


\* MemoryBalanceExceeded left to the catch-all arm
ClarityError_from_CheckError_nomem(e) ==
    CASE e.err.tag = "CostOverflow" ->
            ClarityError_CostError(ExecutionCost_max_value,
                                   ExecutionCost_max_value)
      [] e.err.tag = "CostBalanceExceeded" ->
            ClarityError_CostError(e.err.args[1], e.err.args[2])
      [] OTHER -> E("ClarityError", "Analysis", <<e>>)

\* impl From<CheckError> for ClarityError
ClarityError_from_CheckError(e) ==
    CASE e.err.tag = "CostOverflow" ->
            ClarityError_CostError(ExecutionCost_max_value,
                                   ExecutionCost_max_value)
      [] e.err.tag = "CostBalanceExceeded" ->
            ClarityError_CostError(e.err.args[1], e.err.args[2])
      [] e.err.tag = "MemoryBalanceExceeded" ->
            ClarityError_CostError(ExecutionCost_max_value,
                                   ExecutionCost_max_value)
      [] OTHER -> E("ClarityError", "Analysis", <<e>>)

\* impl From<ParseError> for ClarityError
ClarityError_from_ParseError(e) ==
    CASE e.err.tag = "CostOverflow" ->
            ClarityError_CostError(ExecutionCost_max_value,
                                   ExecutionCost_max_value)
      [] e.err.tag = "CostBalanceExceeded" ->
            ClarityError_CostError(e.err.args[1], e.err.args[2])
      [] e.err.tag = "MemoryBalanceExceeded" ->
            ClarityError_CostError(ExecutionCost_max_value,
                                   ExecutionCost_max_value)
      [] OTHER -> E("ClarityError", "Parse", <<e>>)


\* a stack trace attached in place of None
InterpreterError_from_RuntimeErrorType_traced(err) ==
    E("InterpreterError", "Runtime", <<err, Some(List(<<>>))>>)

\* impl From<RuntimeErrorType> for InterpreterError
InterpreterError_from_RuntimeErrorType(err) ==
    E("InterpreterError", "Runtime", <<err, None>>)

\* impl From<ParseError> for InterpreterError
InterpreterError_from_ParseError(err) ==
    InterpreterError_from_RuntimeErrorType(
        E("RuntimeErrorType", "ASTError", <<err>>))

\* impl From<CheckErrors> for InterpreterError
InterpreterError_from_CheckErrors(err) ==
    E("InterpreterError", "Unchecked", <<err>>)

\* impl From<CostErrors> for InterpreterError
InterpreterError_from_CostErrors(err) ==
    InterpreterError_from_CheckErrors(CheckErrors_from_CostErrors(err))

\* an error of a library (io::Error, rusqlite::Error, serde_json::Error,
\* node::CursorError), by the library and the text it displays
Lib(lib, text) == [lib |-> lib, text |-> text]

\* format!(text, args..) with a {:?} in it: the text and the values rendered
Format(text, args) == [fmt |-> text, args |-> args]

\* impl fmt::Display for MarfError
RECURSIVE MarfError_Display(_)
MarfError_Display(e) ==
    CASE e.tag \in {"IOError", "SQLError", "CursorError"} -> e.args[1].text
      [] e.tag = "CorruptionError" -> e.args[1].str
      [] e.tag = "BlockHashMapCorruptionError" ->
            IF e.args[1].some
            THEN "Corrupted MARF BlockHashMap" \o ": "
                     \o MarfError_Display(e.args[1].v)
            ELSE "Corrupted MARF BlockHashMap"
      [] e.tag = "NotOpenedError" -> "Tried to read data from unopened storage"
      [] e.tag = "NotFoundError" -> "Object not found"
      [] e.tag = "BackptrNotFoundError" -> "Object not found from backptrs"
      [] e.tag = "ExistsError" -> "Object exists"
      [] e.tag = "BadSeekValue" -> "Bad seek value"
      [] e.tag = "ReadOnlyError" -> "Storage is in read-only mode"
      [] e.tag = "UnconfirmedError" -> "Storage is in unconfirmed mode"
      [] e.tag = "NotDirectoryError" -> "Not a directory"
      [] e.tag = "PartialWriteError" ->
            "Data is partially written and not yet recovered"
      [] e.tag = "InProgressError" -> "Write was in progress"
      [] e.tag = "WriteNotBegunError" -> "Write has not begun"
      [] e.tag = "RestoreMarfBlockError" ->
            "Failed to restore previous open block during block header check"
      [] e.tag = "NonMatchingForks" ->
            "The supplied blocks are not in the same fork"
      [] e.tag = "RequestedIdentifierForExtensionTrie" ->
            "BUG: MARF requested the identifier for a RAM trie"

\* impl fmt::Display for DBError
DBError_Display(e) ==
    CASE e.tag = "NotImplemented" -> "Not implemented"
      [] e.tag = "NoDBError" -> "Database does not exist"
      [] e.tag = "ReadOnly" -> "Database is opened read-only"
      [] e.tag = "TypeError" -> "Invalid or unrepresentable database type"
      [] e.tag = "Corruption" -> "Database is corrupt"
      [] e.tag = "SerializationError" -> e.args[1].text
      [] e.tag = "ParseError" -> "Parse error"
      [] e.tag = "Overflow" -> "Numeric overflow"
      [] e.tag = "NotFoundError" -> "Not found"
      [] e.tag = "ExistsError" -> "Already exists"
      [] e.tag = "InvalidPoxSortition" -> "Invalid PoX sortition"
      [] e.tag = "IOError" -> e.args[1].text
      [] e.tag = "SqliteError" -> e.args[1].text
      [] e.tag = "IndexError" -> MarfError_Display(e.args[1])
      [] e.tag = "Other" -> e.args[1].str

\* impl From<MarfError> for DBError
DBError_from_MarfError(e) == E("DBError", "IndexError", <<e>>)


\* NotFoundError left to the catch-all arm
MarfError_from_DBError_generic(e) ==
    CASE e.tag = "SqliteError" -> E("MarfError", "SQLError", <<e.args[1]>>)
      [] OTHER -> E("MarfError", "CorruptionError",
                    <<Str(DBError_Display(e))>>)

\* impl From<DBError> for MarfError
MarfError_from_DBError(e) ==
    CASE e.tag = "SqliteError" -> E("MarfError", "SQLError", <<e.args[1]>>)
      [] e.tag = "NotFoundError" -> E("MarfError", "NotFoundError", <<>>)
      [] OTHER -> E("MarfError", "CorruptionError",
                    <<Str(DBError_Display(e))>>)

\* impl From<MarfError> for ChainstateError
ChainstateError_from_MarfError(e) == E("ChainstateError", "MARFError", <<e>>)

\* impl From<ClarityError> for ChainstateError
ChainstateError_from_ClarityError(e) ==
    E("ChainstateError", "ClarityError", <<e>>)

\* impl From<NetworkError> for ChainstateError
ChainstateError_from_NetworkError(e) == E("ChainstateError", "NetError", <<e>>)

\* impl From<DBError> for ChainstateError
ChainstateError_from_DBError(e) == E("ChainstateError", "DBError", <<e>>)


\* the variant of the DBError kept, its payload dropped
NetworkError_from_DBError_flat(e) ==
    E("NetworkError", "DBError", <<E("DBError", e.tag, <<>>)>>)

\* impl From<DBError> for NetworkError
NetworkError_from_DBError(e) == E("NetworkError", "DBError", <<e>>)

NetworkError_ChainstateError(s) ==
    E("NetworkError", "ChainstateError", <<s>>)


\* every variant taken by the catch-all arm
NetworkError_from_ChainstateError_nested(e) ==
    NetworkError_ChainstateError(
        Format("Stacks chainstate error: {:?}", <<e>>))

\* without the arms for ReadError and WriteError
NetworkError_from_ChainstateError_noio(e) ==
    CASE e.tag = "InvalidStacksBlock" ->
            NetworkError_ChainstateError(
                Str("Invalid stacks block: " \o e.args[1].str))
      [] e.tag = "InvalidStacksMicroblock" ->
            NetworkError_ChainstateError(
                Format("Invalid stacks microblock {:?}: {}",
                       <<e.args[2], e.args[1]>>))
      [] e.tag = "InvalidStacksTransaction" ->
            NetworkError_ChainstateError(
                Str("Invalid stacks transaction: " \o e.args[1].str))
      [] e.tag = "PostConditionFailed" ->
            NetworkError_ChainstateError(
                Str("Postcondition failed: " \o e.args[1].str))
      [] e.tag = "ClarityError" -> E("NetworkError", "ClarityError", e.args)
      [] e.tag = "DBError" -> E("NetworkError", "DBError", e.args)
      [] e.tag = "NetError" -> e.args[1]
      [] e.tag = "MARFError" -> E("NetworkError", "MARFError", e.args)
      [] OTHER -> NetworkError_ChainstateError(
                      Format("Stacks chainstate error: {:?}", <<e>>))

\* impl From<ChainstateError> for NetworkError
NetworkError_from_ChainstateError(e) ==
    CASE e.tag = "InvalidStacksBlock" ->
            NetworkError_ChainstateError(
                Str("Invalid stacks block: " \o e.args[1].str))
      [] e.tag = "InvalidStacksMicroblock" ->
            NetworkError_ChainstateError(
                Format("Invalid stacks microblock {:?}: {}",
                       <<e.args[2], e.args[1]>>))
      [] e.tag = "InvalidStacksTransaction" ->
            NetworkError_ChainstateError(
                Str("Invalid stacks transaction: " \o e.args[1].str))
      [] e.tag = "PostConditionFailed" ->
            NetworkError_ChainstateError(
                Str("Postcondition failed: " \o e.args[1].str))
      [] e.tag = "ClarityError" -> E("NetworkError", "ClarityError", e.args)
      [] e.tag = "DBError" -> E("NetworkError", "DBError", e.args)
      [] e.tag = "NetError" -> e.args[1]
      [] e.tag = "MARFError" -> E("NetworkError", "MARFError", e.args)
      [] e.tag = "ReadError" -> ReadError(e.args[1])
      [] e.tag = "WriteError" -> WriteError(e.args[1])
      [] OTHER -> NetworkError_ChainstateError(
                      Format("Stacks chainstate error: {:?}", <<e>>))


\* index errors named as database errors
ChainstateError_name_merged(e) ==
    IF e.tag = "MARFError" THEN "DBError" ELSE e.tag

\* a reason that tells the message of a MemPoolError
ChainstateError_name_detailed(e) ==
    IF e.tag = "MemPoolError" THEN "MemPoolError: " \o e.args[1].str
    ELSE e.tag

\* ChainstateError::name
ChainstateError_name(e) ==
    CASE e.tag = "InvalidFee" -> "InvalidFee"
      [] e.tag = "InvalidStacksBlock" -> "InvalidStacksBlock"
      [] e.tag = "InvalidStacksMicroblock" -> "InvalidStacksMicroblock"
      [] e.tag = "InvalidStacksTransaction" -> "InvalidStacksTransaction"
      [] e.tag = "PostConditionFailed" -> "PostConditionFailed"
      [] e.tag = "NoSuchBlockError" -> "NoSuchBlockError"
      [] e.tag = "InvalidChainstateDB" -> "InvalidChainstateDB"
      [] e.tag = "BlockTooBigError" -> "BlockTooBigError"
      [] e.tag = "BlockCostExceeded" -> "BlockCostExceeded"
      [] e.tag = "MicroblockStreamTooLongError" ->
            "MicroblockStreamTooLongError"
      [] e.tag = "IncompatibleSpendingConditionError" ->
            "IncompatibleSpendingConditionError"
      [] e.tag = "CostOverflowError" -> "CostOverflowError"
      [] e.tag = "ClarityError" -> "ClarityError"
      [] e.tag = "DBError" -> "DBError"
      [] e.tag = "NetError" -> "NetError"
      [] e.tag = "MARFError" -> "MARFError"
      [] e.tag = "ReadError" -> "ReadError"
      [] e.tag = "WriteError" -> "WriteError"
      [] e.tag = "MemPoolError" -> "MemPoolError"
      [] e.tag = "NoTransactionsToMine" -> "NoTransactionsToMine"
      [] e.tag = "PoxAlreadyLocked" -> "PoxAlreadyLocked"
      [] e.tag = "PoxInsufficientBalance" -> "PoxInsufficientBalance"
      [] e.tag = "PoxNoRewardCycle" -> "PoxNoRewardCycle"

\* ChainstateError::into_json
into_json(e) ==
    [error |-> "chainstate error",
     reason |-> ChainstateError_name(e),
     reason_data |-> Format("{:?}", <<e>>)]

\* impl From<InterpreterError> for ClarityError
ClarityError_from_InterpreterError(e) ==
    IF e.tag = "Unchecked" /\ e.args[1].tag = "CostBalanceExceeded"
    THEN ClarityError_CostError(e.args[1].args[1], e.args[1].args[2])
    ELSE IF e.tag = "Unchecked" /\ e.args[1].tag = "CostOverflow"
    THEN ClarityError_CostError(ExecutionCost_max_value,
                                ExecutionCost_max_value)
    ELSE E("ClarityError", "Interpreter", <<e>>)

\* impl From<InterpreterError> for ChainstateError
ChainstateError_from_InterpreterError(e) ==
    E("ChainstateError", "ClarityError",
      <<E("ClarityError", "Interpreter", <<e>>)>>)

\* impl From<ChainstateError> for ClarityError
ClarityError_from_ChainstateError(e) ==
    CASE e.tag = "InvalidStacksTransaction" ->
            E("ClarityError", "BadTransaction", <<e.args[1]>>)
      [] e.tag = "CostOverflowError" ->
            ClarityError_CostError(e.args[2], e.args[3])
      [] e.tag = "ClarityError" -> e.args[1]
      [] OTHER -> E("ClarityError", "BadTransaction", <<Format("{:?}", <<e>>)>>)


\* the totals that the context tracks, whatever the cost error
from_cost_error_tracked(err, cost_before, context) ==
    E("ChainstateError", "CostOverflowError",
      <<cost_before, context.total, context.limit>>)

\* ChainstateError::from_cost_error; context is what
\* context.cost_track.get_total() and get_limit() return
from_cost_error(err, cost_before, context) ==
    IF err.tag = "CostBalanceExceeded"
    THEN E("ChainstateError", "CostOverflowError",
           <<cost_before, err.args[1], err.args[2]>>)
    ELSE E("ChainstateError", "CostOverflowError",
           <<cost_before, context.total, context.limit>>)

\* rusqlite::Error::QueryReturnedNoRows
QueryReturnedNoRows == Lib("rusqlite", "Query returned no rows")

\* impl From<rusqlite::Error> for MarfError
MarfError_from_rusqlite(err) ==
    IF err = QueryReturnedNoRows
    THEN E("MarfError", "NotFoundError", <<>>)
    ELSE E("MarfError", "SQLError", <<err>>)

\* impl From<rusqlite::Error> for DBError
DBError_from_rusqlite(e) == E("DBError", "SqliteError", <<e>>)

\* IncomparableError { err }
IncomparableError(err) == [incomparable |-> err]

\* impl From<serde_json::Error> for InterpreterError
InterpreterError_from_serde_json(err) ==
    InterpreterError_from_RuntimeErrorType(
        E("RuntimeErrorType", "JSONParseError", <<IncomparableError(err)>>))

\* impl PartialEq for IncomparableError
IncomparableError_eq(x, y) == FALSE

\* #[derive(PartialEq)] of RuntimeErrorType: the same variant and the
\* payloads equal, each by the PartialEq of its type
RuntimeErrorType_eq(x, y) ==
    /\ x.tag = y.tag
    /\ IF x.tag = "JSONParseError"
       THEN IncomparableError_eq(x.args[1], y.args[1])
       ELSE x.args = y.args

\* #[derive(PartialEq)] of InterpreterFailureError
InterpreterFailureError_eq(x, y) ==
    /\ x.tag = y.tag
    /\ IF x.tag \in {"SqliteError", "MarfFailure", "DBError"}
       THEN IncomparableError_eq(x.args[1], y.args[1])
       ELSE x.args = y.args


\* Runtime errors compared with their stack traces
InterpreterError_eq_traced(x, y) ==
    CASE x.tag = "Runtime" /\ y.tag = "Runtime" ->
            RuntimeErrorType_eq(x.args[1], y.args[1]) /\ x.args[2] = y.args[2]
      [] x.tag = "Unchecked" /\ y.tag = "Unchecked" -> x.args[1] = y.args[1]
      [] x.tag = "ShortReturn" /\ y.tag = "ShortReturn" ->
            x.args[1] = y.args[1]
      [] x.tag = "Interpreter" /\ y.tag = "Interpreter" ->
            InterpreterFailureError_eq(x.args[1], y.args[1])
      [] OTHER -> FALSE

\* impl PartialEq<InterpreterError> for InterpreterError; CheckErrors and
\* ShortReturnType derive PartialEq over payloads that compare structurally
InterpreterError_eq(x, y) ==
    CASE x.tag = "Runtime" /\ y.tag = "Runtime" ->
            RuntimeErrorType_eq(x.args[1], y.args[1])
      [] x.tag = "Unchecked" /\ y.tag = "Unchecked" -> x.args[1] = y.args[1]
      [] x.tag = "ShortReturn" /\ y.tag = "ShortReturn" ->
            x.args[1] = y.args[1]
      [] x.tag = "Interpreter" /\ y.tag = "Interpreter" ->
            InterpreterFailureError_eq(x.args[1], y.args[1])
      [] OTHER -> FALSE

\* ------------------------------------------------------------------------
\* StacksChainState::get_contract and get_data_var
\* (chainstate/stacks/db/contracts.rs)
\* ------------------------------------------------------------------------
\* .map_err(ChainstateError::ClarityError) on the outcome r of the closure
MapClarityErr(r) ==
    IF r.ok THEN r ELSE Err(E("ChainstateError", "ClarityError", <<r.err>>))


\* the closure of get_contract without the NoSuchContract arm
ContractLookup_strict(found) ==
    IF found.ok THEN Ok(Some(found.val))
    ELSE Err(E("ClarityError", "Interpreter", <<found.err>>))

\* the closure of get_contract on the outcome of db.get_contract
ContractLookup(found) ==
    IF found.ok THEN Ok(Some(found.val))
    ELSE IF found.err.tag = "Unchecked"
            /\ found.err.args[1].tag = "NoSuchContract"
    THEN Ok(None)
    ELSE Err(E("ClarityError", "Interpreter", <<found.err>>))

\* the closure of get_data_var on the outcome of
\* db.lookup_variable_unknown_descriptor
DataVarLookup(found) ==
    IF found.ok THEN Ok(Some(found.val))
    ELSE IF found.err.tag = "Unchecked"
            /\ found.err.args[1].tag = "NoSuchDataVariable"
    THEN Ok(None)
    ELSE Err(E("ClarityError", "Interpreter", <<found.err>>))

\* with_clarity_db_readonly hands the closure's outcome back
get_contract(found) == MapClarityErr(ContractLookup(found))

get_data_var(found) == MapClarityErr(DataVarLookup(found))

\* ------------------------------------------------------------------------
\* Error values that are converted
\* ------------------------------------------------------------------------
Costs == {Cost(400), Cost(500), ExecutionCost_max_value}

Messages == {Str("Not implemented"), Str("disk full")}

CostErrorsVals ==
    {E("CostErrors", "CostOverflow", <<>>),
     E("CostErrors", "CostContractLoadFailure", <<>>),
     E("CostErrors", "MemoryBalanceExceeded", <<U64(9), U64(8)>>),
     E("CostErrors", "CostComputationFailed", <<Str("disk full")>>)}
    \cup {E("CostErrors", "CostBalanceExceeded", <<a, b>>) :
            a \in Costs, b \in Costs}

CheckErrorsVals ==
    {E("CheckErrors", "CostOverflow", <<>>),
     E("CheckErrors", "MemoryBalanceExceeded", <<U64(9), U64(8)>>),
     E("CheckErrors", "CostComputationFailed", <<Str("disk full")>>),
     E("CheckErrors", "ValueTooLarge", <<>>),
     E("CheckErrors", "NoSuchContract", <<Str("disk full")>>),
     E("CheckErrors", "BadMatchOptionSyntax",
       <<E("CheckErrors", "ValueTooLarge", <<>>)>>)}
    \cup {E("CheckErrors", "CostBalanceExceeded", <<a, b>>) :
            a \in Costs, b \in Costs}

CheckErrorVals ==
    {CheckError_new(e) : e \in CheckErrorsVals}
    \cup {CheckError_near(e, Str("(f x)")) : e \in CheckErrorsVals}

ParseErrorsVals ==
    {E("ParseErrors", "CostOverflow", <<>>),
     E("ParseErrors", "MemoryBalanceExceeded", <<U64(9), U64(8)>>),
     E("ParseErrors", "CostComputationFailed", <<Str("disk full")>>),
     E("ParseErrors", "TooManyExpressions", <<>>),
     E("ParseErrors", "IllegalVariableName", <<Str("disk full")>>)}
    \cup {E("ParseErrors", "CostBalanceExceeded", <<a, b>>) :
            a \in Costs, b \in Costs}

ParseErrorVals ==
    {ParseError_new(e) : e \in ParseErrorsVals}
    \cup {ParseError_near(e, Str("(f x)")) : e \in ParseErrorsVals}

RuntimeErrorTypeVals ==
    {E("RuntimeErrorType", "DivisionByZero", <<>>),
     E("RuntimeErrorType", "Arithmetic", <<Str("disk full")>>),
     E("RuntimeErrorType", "ASTError",
       <<ParseError_new(E("ParseErrors", "TooManyExpressions", <<>>))>>)}

InterpreterErrorVals ==
    {E("InterpreterError", "Unchecked", <<e>>) :
        e \in {E("CheckErrors", "CostOverflow", <<>>),
               E("CheckErrors", "NoSuchContract", <<Str("disk full")>>),
               E("CheckErrors", "CostBalanceExceeded",
                 <<Cost(500), Cost(400)>>)}}
    \cup {E("InterpreterError", "Runtime", <<rt, st>>) :
            rt \in RuntimeErrorTypeVals, st \in {None, Some(List(<<>>))}}
    \cup {E("InterpreterError", "Interpreter",
             <<E("InterpreterFailureError", "BadFileName", <<>>)>>),
          E("InterpreterError", "ShortReturn",
             <<E("ShortReturnType", "ExpectedValue", <<Bool(TRUE)>>)>>)}

ClarityErrorVals ==
    {E("ClarityError", "Analysis",
       <<CheckError_new(E("CheckErrors", "ValueTooLarge", <<>>))>>),
     E("ClarityError", "Parse",
       <<ParseError_new(E("ParseErrors", "TooManyExpressions", <<>>))>>),
     E("ClarityError", "Interpreter",
       <<E("InterpreterError", "Interpreter",
           <<E("InterpreterFailureError", "BadFileName", <<>>)>>)>>),
     E("ClarityError", "BadTransaction", <<Str("disk full")>>),
     E("ClarityError", "CostError", <<Cost(500), Cost(400)>>),
     E("ClarityError", "CostError", <<Cost(400), Cost(500)>>),
     E("ClarityError", "AbortedByCallback", <<None, List(<<>>), List(<<>>)>>)}

MarfErrorVals ==
    {E("MarfError", tag, <<>>) :
        tag \in {"NotOpenedError", "RequestedIdentifierForExtensionTrie",
                 "NotFoundError", "BackptrNotFoundError", "ExistsError",
                 "BadSeekValue", "ReadOnlyError", "UnconfirmedError",
                 "NotDirectoryError", "PartialWriteError", "InProgressError",
                 "WriteNotBegunError"}}
    \cup {E("MarfError", "CorruptionError", <<m>>) : m \in Messages}
    \cup {E("MarfError", "IOError", <<Lib("io", "unexpected end of file")>>),
          E("MarfError", "SQLError",
            <<Lib("rusqlite", "Query returned no rows")>>),
          E("MarfError", "CursorError", <<Lib("node", "Ptr not found")>>),
          E("MarfError", "BlockHashMapCorruptionError", <<None>>),
          E("MarfError", "BlockHashMapCorruptionError",
            <<Some(E("MarfError", "NotFoundError", <<>>))>>),
          E("MarfError", "RestoreMarfBlockError",
            <<E("MarfError", "NotFoundError", <<>>)>>),
          E("MarfError", "NonMatchingForks", <<Str("aa"), Str("bb")>>)}

DBErrorVals ==
    {E("DBError", tag, <<>>) :
        tag \in {"NotImplemented", "NoDBError", "ReadOnly", "TypeError",
                 "Corruption", "ParseError", "Overflow", "NotFoundError",
                 "ExistsError", "InvalidPoxSortition"}}
    \cup {E("DBError", "Other", <<m>>) : m \in Messages}
    \cup {E("DBError", "IndexError", <<e>>) :
            e \in {E("MarfError", "NotFoundError", <<>>),
                   E("MarfError", "CorruptionError", <<Str("disk full")>>)}}
    \cup {E("DBError", "SerializationError",
             <<Lib("serde_json", "EOF while parsing a value")>>),
          E("DBError", "SqliteError",
             <<Lib("rusqlite", "Query returned no rows")>>),
          E("DBError", "SqliteError", <<Lib("rusqlite", "disk full")>>),
          E("DBError", "IOError", <<Lib("io", "unexpected end of file")>>)}

NetworkErrorVals ==
    {E("NetworkError", tag, <<>>) :
        tag \in {"WrongProtocolFamily", "ConnectionBroken", "NotFoundError",
                 "StaleView"}}
    \cup {E("NetworkError", "SerializeError", <<Str("disk full")>>),
          E("NetworkError", "ChainstateError", <<Str("disk full")>>),
          E("NetworkError", "DBError", <<E("DBError", "NotFoundError", <<>>)>>),
          E("NetworkError", "MARFError",
            <<E("MarfError", "NotFoundError", <<>>)>>),
          E("NetworkError", "ClarityError",
            <<E("ClarityError", "BadTransaction", <<Str("disk full")>>)>>),
          ReadError(Lib("io", "unexpected end of file")),
          WriteError(Lib("io", "broken pipe")),
          DeserializeError([text |-> "Array has too many items ({} > {}",
                            args |-> <<WFromNat(3), WFromNat(2)>>])}

ChainstateErrorVals ==
    {E("ChainstateError", tag, <<>>) :
        tag \in {"InvalidFee", "NoSuchBlockError", "InvalidChainstateDB",
                 "BlockTooBigError", "BlockCostExceeded",
                 "NoTransactionsToMine", "MicroblockStreamTooLongError",
                 "IncompatibleSpendingConditionError", "PoxAlreadyLocked",
                 "PoxInsufficientBalance", "PoxNoRewardCycle"}}
    \cup {E("ChainstateError", tag, <<m>>) :
            tag \in {"InvalidStacksBlock", "PostConditionFailed",
                     "MemPoolError"},
            m \in Messages}
    \cup {E("ChainstateError", "InvalidStacksMicroblock", <<m, Str("aa")>>) :
            m \in Messages}
    \cup {E("ChainstateError", "InvalidStacksTransaction", <<m, Bool(q)>>) :
            m \in Messages, q \in BOOLEAN}
    \cup {E("ChainstateError", "CostOverflowError",
             <<Cost(400), a, Cost(500)>>) : a \in Costs}
    \cup {E("ChainstateError", "ClarityError", <<e>>) : e \in ClarityErrorVals}
    \cup {E("ChainstateError", "DBError", <<e>>) :
            e \in {E("DBError", "NotFoundError", <<>>),
                   E("DBError", "Other", <<Str("disk full")>>)}}
    \cup {E("ChainstateError", "NetError", <<e>>) : e \in NetworkErrorVals}
    \cup {E("ChainstateError", "MARFError", <<e>>) :
            e \in {E("MarfError", "NotFoundError", <<>>),
                   E("MarfError", "CorruptionError", <<Str("disk full")>>)}}
    \cup {E("ChainstateError", "ReadError",
             <<Lib("io", "unexpected end of file")>>),
          E("ChainstateError", "WriteError", <<Lib("io", "broken pipe")>>)}

RusqliteVals == {QueryReturnedNoRows, Lib("rusqlite", "disk full")}

\* InterpreterErrors that hold an IncomparableError
IncomparableVals ==
    {InterpreterError_from_serde_json(
         Lib("serde_json", "EOF while parsing a value")),
     E("InterpreterError", "Interpreter",
       <<E("InterpreterFailureError", "SqliteError",
           <<IncomparableError(QueryReturnedNoRows)>>)>>)}

\* the two sides of a comparison
EqOperands ==
    [self : InterpreterErrorVals \cup IncomparableVals,
     other : InterpreterErrorVals \cup IncomparableVals]

\* the arguments of from_cost_error
CostFailures ==
    [err : CostErrorsVals, cost_before : {Cost(400), Cost(500)},
     context : [total : {Cost(400), Cost(500)},
                limit : {Cost(500), ExecutionCost_max_value}]]

\* the outcomes of a database lookup
Lookups ==
    {Ok(Str("contract"))}
    \cup {Err(e) : e \in InterpreterErrorVals}
    \cup {Err(E("InterpreterError", "Unchecked",
                <<E("CheckErrors", "NoSuchDataVariable", <<m>>)>>)) :
            m \in Messages}

\* the values of each error type
ValsOf(typ) ==
    CASE typ = "CostErrors" -> CostErrorsVals
      [] typ = "CheckErrors" -> CheckErrorsVals
      [] typ = "CheckError" -> CheckErrorVals
      [] typ = "ParseErrors" -> ParseErrorsVals
      [] typ = "ParseError" -> ParseErrorVals
      [] typ = "RuntimeErrorType" -> RuntimeErrorTypeVals
      [] typ = "InterpreterError" -> InterpreterErrorVals
      [] typ = "ClarityError" -> ClarityErrorVals
      [] typ = "MarfError" -> MarfErrorVals
      [] typ = "DBError" -> DBErrorVals
      [] typ = "NetworkError" -> NetworkErrorVals
      [] typ = "ChainstateError" -> ChainstateErrorVals
      [] typ = "rusqlite::Error" -> RusqliteVals
      [] typ = "(InterpreterError, InterpreterError)" -> EqOperands
      [] typ = "(CostErrors, ExecutionCost, GlobalContext)" -> CostFailures
      [] typ = "InterpreterResult" -> Lookups

ErrorTypes ==
    {"CostErrors", "CheckErrors", "CheckError", "ParseErrors", "ParseError",
     "RuntimeErrorType", "InterpreterError", "ClarityError", "MarfError",
     "DBError", "NetworkError", "ChainstateError", "rusqlite::Error",
     "(InterpreterError, InterpreterError)",
     "(CostErrors, ExecutionCost, GlobalContext)", "InterpreterResult"}

\* ------------------------------------------------------------------------
\* Conversions of an error, one after the other
\*
\* conv is [typ, val, prev, orig, path]: the error in hand and its type,
\* the error it was converted from, the error at the start, and the
\* conversions applied so far.
\* ------------------------------------------------------------------------
MaxPath == 3

Held(typ, val) == [typ |-> typ, val |-> val]

InitErrors ==
    /\ sink = MemSink
    /\ wrote = Nothing
    /\ src = NoSrc
    /\ origin = Nothing
    /\ pre = NoSrc
    /\ last = NoOp
    /\ res = Ok(Unit)
    /\ alloc = NoAlloc
    /\ tries = 0
    /\ ndec = 0
    /\ tasks = NoTasks
    /\ \E typ \in ErrorTypes : \E val \in ValsOf(typ) :
        conv = [typ |-> typ, val |-> val, prev |-> Held(typ, val),
                orig |-> Held(typ, val), path |-> <<>>]

\* the error in hand has type typ and can still be converted
Holding(typ) == conv.typ = typ /\ Len(conv.path) < MaxPath

\* the error in hand becomes val of type typ by the conversion named how
Converted(how, typ, val) ==
    [typ |-> typ, val |-> val, prev |-> Held(conv.typ, conv.val),
     orig |-> conv.orig, path |-> Append(conv.path, how)]

CheckErrorsFromCostErrors ==
    /\ Holding("CostErrors")
    /\ conv' = Converted("CheckErrors::from(CostErrors)", "CheckErrors",
                         CheckErrors_from_CostErrors(conv.val))
    /\ UNCHANGED <<codecVars, tasks>>

CheckErrorFromCheckErrors ==
    /\ Holding("CheckErrors")
    /\ conv' = Converted("CheckError::from(CheckErrors)", "CheckError",
                         CheckError_from_CheckErrors(conv.val))
    /\ UNCHANGED <<codecVars, tasks>>

CheckErrorFromCostErrors ==
    /\ Holding("CostErrors")
    /\ conv' = Converted("CheckError::from(CostErrors)", "CheckError",
                         CheckError_from_CostErrors(conv.val))
    /\ UNCHANGED <<codecVars, tasks>>

ParseErrorFromParseErrors ==
    /\ Holding("ParseErrors")
    /\ conv' = Converted("ParseError::from(ParseErrors)", "ParseError",
                         ParseError_from_ParseErrors(conv.val))
    /\ UNCHANGED <<codecVars, tasks>>

ParseErrorFromCostErrors ==
    /\ Holding("CostErrors")
    /\ conv' = Converted("ParseError::from(CostErrors)", "ParseError",
                         ParseError_from_CostErrors(conv.val))
    /\ UNCHANGED <<codecVars, tasks>>

ClarityErrorFromCheckError ==
    /\ Holding("CheckError")
    /\ conv' = Converted("ClarityError::from(CheckError)", "ClarityError",
                         ClarityError_from_CheckError(conv.val))
    /\ UNCHANGED <<codecVars, tasks>>

ClarityErrorFromParseError ==
    /\ Holding("ParseError")
    /\ conv' = Converted("ClarityError::from(ParseError)", "ClarityError",
                         ClarityError_from_ParseError(conv.val))
    /\ UNCHANGED <<codecVars, tasks>>

InterpreterErrorFromRuntimeErrorType ==
    /\ Holding("RuntimeErrorType")
    /\ conv' = Converted("InterpreterError::from(RuntimeErrorType)", "InterpreterError",
                         InterpreterError_from_RuntimeErrorType(conv.val))
    /\ UNCHANGED <<codecVars, tasks>>

InterpreterErrorFromParseError ==
    /\ Holding("ParseError")
    /\ conv' = Converted("InterpreterError::from(ParseError)", "InterpreterError",
                         InterpreterError_from_ParseError(conv.val))
    /\ UNCHANGED <<codecVars, tasks>>

InterpreterErrorFromCheckErrors ==
    /\ Holding("CheckErrors")
    /\ conv' = Converted("InterpreterError::from(CheckErrors)", "InterpreterError",
                         InterpreterError_from_CheckErrors(conv.val))
    /\ UNCHANGED <<codecVars, tasks>>

InterpreterErrorFromCostErrors ==
    /\ Holding("CostErrors")
    /\ conv' = Converted("InterpreterError::from(CostErrors)", "InterpreterError",
                         InterpreterError_from_CostErrors(conv.val))
    /\ UNCHANGED <<codecVars, tasks>>

DBErrorFromMarfError ==
    /\ Holding("MarfError")
    /\ conv' = Converted("DBError::from(MarfError)", "DBError",
                         DBError_from_MarfError(conv.val))
    /\ UNCHANGED <<codecVars, tasks>>

MarfErrorFromDBError ==
    /\ Holding("DBError")
    /\ conv' = Converted("MarfError::from(DBError)", "MarfError",
                         MarfError_from_DBError(conv.val))
    /\ UNCHANGED <<codecVars, tasks>>

ChainstateErrorFromMarfError ==
    /\ Holding("MarfError")
    /\ conv' = Converted("ChainstateError::from(MarfError)", "ChainstateError",
                         ChainstateError_from_MarfError(conv.val))
    /\ UNCHANGED <<codecVars, tasks>>

ChainstateErrorFromClarityError ==
    /\ Holding("ClarityError")
    /\ conv' = Converted("ChainstateError::from(ClarityError)", "ChainstateError",
                         ChainstateError_from_ClarityError(conv.val))
    /\ UNCHANGED <<codecVars, tasks>>

ChainstateErrorFromNetworkError ==
    /\ Holding("NetworkError")
    /\ conv' = Converted("ChainstateError::from(NetworkError)", "ChainstateError",
                         ChainstateError_from_NetworkError(conv.val))
    /\ UNCHANGED <<codecVars, tasks>>

ChainstateErrorFromDBError ==
    /\ Holding("DBError")
    /\ conv' = Converted("ChainstateError::from(DBError)", "ChainstateError",
                         ChainstateError_from_DBError(conv.val))
    /\ UNCHANGED <<codecVars, tasks>>

NetworkErrorFromDBError ==
    /\ Holding("DBError")
    /\ conv' = Converted("NetworkError::from(DBError)", "NetworkError",
                         NetworkError_from_DBError(conv.val))
    /\ UNCHANGED <<codecVars, tasks>>

NetworkErrorFromChainstateError ==
    /\ Holding("ChainstateError")
    /\ conv' = Converted("NetworkError::from(ChainstateError)", "NetworkError",
                         NetworkError_from_ChainstateError(conv.val))
    /\ UNCHANGED <<codecVars, tasks>>

IntoJson ==
    /\ Holding("ChainstateError")
    /\ conv' = Converted("ChainstateError::into_json", "Json",
                         into_json(conv.val))
    /\ UNCHANGED <<codecVars, tasks>>

ClarityErrorFromInterpreterError ==
    /\ Holding("InterpreterError")
    /\ conv' = Converted("ClarityError::from(InterpreterError)", "ClarityError",
                         ClarityError_from_InterpreterError(conv.val))
    /\ UNCHANGED <<codecVars, tasks>>

ChainstateErrorFromInterpreterError ==
    /\ Holding("InterpreterError")
    /\ conv' = Converted("ChainstateError::from(InterpreterError)", "ChainstateError",
                         ChainstateError_from_InterpreterError(conv.val))
    /\ UNCHANGED <<codecVars, tasks>>

ClarityErrorFromChainstateError ==
    /\ Holding("ChainstateError")
    /\ conv' = Converted("ClarityError::from(ChainstateError)", "ClarityError",
                         ClarityError_from_ChainstateError(conv.val))
    /\ UNCHANGED <<codecVars, tasks>>

FromCostError ==
    /\ Holding("(CostErrors, ExecutionCost, GlobalContext)")
    /\ conv' = Converted("ChainstateError::from_cost_error", "ChainstateError",
                         from_cost_error(conv.val.err, conv.val.cost_before,
                                         conv.val.context))
    /\ UNCHANGED <<codecVars, tasks>>

MarfErrorFromRusqlite ==
    /\ Holding("rusqlite::Error")
    /\ conv' = Converted("MarfError::from(rusqlite::Error)", "MarfError",
                         MarfError_from_rusqlite(conv.val))
    /\ UNCHANGED <<codecVars, tasks>>

DBErrorFromRusqlite ==
    /\ Holding("rusqlite::Error")
    /\ conv' = Converted("DBError::from(rusqlite::Error)", "DBError",
                         DBError_from_rusqlite(conv.val))
    /\ UNCHANGED <<codecVars, tasks>>

InterpreterErrorEq ==
    /\ Holding("(InterpreterError, InterpreterError)")
    /\ conv' = Converted("InterpreterError::eq", "bool",
                         Bool(InterpreterError_eq(conv.val.self, conv.val.other)))
    /\ UNCHANGED <<codecVars, tasks>>

GetContract ==
    /\ Holding("InterpreterResult")
    /\ conv' = Converted("StacksChainState::get_contract", "Result",
                         get_contract(conv.val))
    /\ UNCHANGED <<codecVars, tasks>>

GetDataVar ==
    /\ Holding("InterpreterResult")
    /\ conv' = Converted("StacksChainState::get_data_var", "Result",
                         get_data_var(conv.val))
    /\ UNCHANGED <<codecVars, tasks>>

NextErrors ==
    \/ CheckErrorsFromCostErrors
    \/ CheckErrorFromCheckErrors
    \/ CheckErrorFromCostErrors
    \/ ParseErrorFromParseErrors
    \/ ParseErrorFromCostErrors
    \/ ClarityErrorFromCheckError
    \/ ClarityErrorFromParseError
    \/ InterpreterErrorFromRuntimeErrorType
    \/ InterpreterErrorFromParseError
    \/ InterpreterErrorFromCheckErrors
    \/ InterpreterErrorFromCostErrors
    \/ DBErrorFromMarfError
    \/ MarfErrorFromDBError
    \/ ChainstateErrorFromMarfError
    \/ ChainstateErrorFromClarityError
    \/ ChainstateErrorFromNetworkError
    \/ ChainstateErrorFromDBError
    \/ NetworkErrorFromDBError
    \/ NetworkErrorFromChainstateError
    \/ IntoJson
    \/ ClarityErrorFromInterpreterError
    \/ ChainstateErrorFromInterpreterError
    \/ ClarityErrorFromChainstateError
    \/ FromCostError
    \/ MarfErrorFromRusqlite
    \/ DBErrorFromRusqlite
    \/ InterpreterErrorEq
    \/ GetContract
    \/ GetDataVar

SpecErrors == InitErrors /\ [][NextErrors]_vars

\* ------------------------------------------------------------------------
\* Properties
\* ------------------------------------------------------------------------
\* the number of bytes an integer of type typ occupies on the wire
WireWidth(typ) ==
    CASE typ \in {"u8"} -> 1
      [] typ \in {"u16"} -> 2
      [] typ \in {"u32"} -> 4
      [] typ \in {"u64", "i64"} -> 8

\* the natural number that the bytes b spell, most significant first
RECURSIVE BeValue(_)
BeValue(b) ==
    IF b = <<>> THEN W0
    ELSE WAdd(WMulSmall(BYTE, BeValue(SubSeq(b, 1, Len(b) - 1))),
              WFromNat(b[Len(b)]))

\* the last decode took exactly k bytes from the source
Consumed(k) == WAdd(SLen(src.data), WFromNat(k)) = SLen(pre.data)

SeqDecode ==
    last.op \in {"read_next_at_most", "read_next_exact", "deserialize_vec"}

\* the source of the last decode held a whole length field, PreLen
HasHeader == WLeq(WFromNat(4), SLen(pre.data))
PreLen == BeValue(Take(pre.data, 4).got)

\* the encodings of the elements of s, one after the other
RECURSIVE ElemStream(_, _)
ElemStream(typ, s) ==
    IF s = <<>> THEN <<>>
    ELSE AppendRun(ElemStream(typ, SubSeq(s, 1, Len(s) - 1)),
                   to_be_bytes(typ, s[Len(s)].item), s[Len(s)].n)

TooManyText == "Array has too many items ({} > {}"
IncorrectText == "Array has incorrect number of items ({} != {})"
TooManyBytesText ==
    "Message occupies too many bytes (tried to allocate {}*{}={})"

\* C1: an integer that was serialized into a buffer is what decoding that
\* buffer as the same type returns
IntRoundTrip ==
    (last.op = "deserialize_int" /\ origin.kind = "int"
        /\ origin.typ = last.typ)
    => res = Ok(origin.val)

WitIntRoundTrip ==
    /\ last.op = "deserialize_int"
    /\ origin.kind = "int"
    /\ origin.typ = "i64"
    /\ last.typ = "i64"
    /\ origin.val = Neg(<<0, 0, 0, BASE \div 2>>)
    /\ res = Ok(origin.val)

\* C2: a serialized integer is 1/2/4/8/8 bytes for u8/u16/u32/u64/i64 that
\* spell its value, in two's complement for a negative one, most significant
\* byte first; 0x12345678 as u32 is 12 34 56 78
IntWireFormat ==
    (last.op = "serialize_int" /\ res.ok)
    => /\ Len(sink.data) = 1
       /\ sink.data[1].n = W1
       /\ Len(sink.data[1].chunk) = WireWidth(wrote.typ)
       /\ ~wrote.val.neg => BeValue(sink.data[1].chunk) = wrote.val.mag
       /\ wrote.val.neg
            => WAdd(BeValue(sink.data[1].chunk), wrote.val.mag) = Pow2_64
       /\ (wrote.typ = "u32" /\ wrote.val = Pos(<<22136, 4660>>))
            => sink.data[1].chunk = <<18, 52, 86, 120>>

WitIntWireFormat ==
    /\ last.op = "serialize_int"
    /\ res.ok
    /\ wrote.typ = "u32"
    /\ wrote.val = Pos(<<22136, 4660>>)
    /\ sink.data = Flat(<<18, 52, 86, 120>>)

\* C3: a serialized vector is a 4-byte big-endian length field equal to its
\* element count, then the encoding of each element in index order, and
\* nothing else, whatever the element count
SeqWireFormat ==
    (last.op = "serialize_vec" /\ res.ok)
    => /\ Len(Take(sink.data, 4).got) = 4
       /\ BeValue(Take(sink.data, 4).got) = VecLen(wrote.val)
       /\ Take(sink.data, 4).rest = ElemStream(wrote.typ, wrote.val)

\* C4 as stated: a serialized vector decodes back to itself with
\* read_next_at_most under every ceiling >= its element count
SeqRoundTripAnySize ==
    (last.op = "read_next_at_most" /\ origin.kind = "vec"
        /\ origin.typ = last.typ
        /\ WLeq(VecLen(origin.val), last.arg))
    => res = Ok(origin.val)

\* C4 as amended: a serialized vector whose elements occupy at most
\* MAX_MESSAGE_LEN bytes in memory (size_of::<T>() * count) decodes back to
\* itself, same elements in the same order, with read_next_at_most under
\* every ceiling >= its element count
SeqRoundTrip ==
    (last.op = "read_next_at_most" /\ origin.kind = "vec"
        /\ origin.typ = last.typ
        /\ WLeq(VecLen(origin.val), last.arg)
        /\ WLeq(WMulSmall(size_of(last.typ), VecLen(origin.val)),
                WFromNat(MAX_MESSAGE_LEN)))
    => res = Ok(origin.val)

WitSeqRoundTrip ==
    /\ last.op = "read_next_at_most"
    /\ origin.kind = "vec"
    /\ origin.typ = "u8"
    /\ last.typ = "u8"
    /\ last.arg = WFromNat(3)
    /\ origin.val = VecOf(<<Nat2(1), Nat2(2), Nat2(3)>>)
    /\ Take(pre.data, 8).got = <<0, 0, 0, 3, 1, 2, 3>>
    /\ res = Ok(origin.val)

\* the arity policy of the last sequence decode lets the length len pass
Admits(len) ==
    CASE last.op = "read_next_exact" -> len = last.arg
      [] last.op = "read_next_at_most" ->
            IF last.arg = W0 THEN len = W0 ELSE WLeq(len, last.arg)
      [] last.op = "deserialize_vec" -> TRUE

\* element size times len exceeds MAX_MESSAGE_LEN
Exceeds(typ, len) ==
    WLess(WFromNat(MAX_MESSAGE_LEN), WMulSmall(WireWidth(typ), len))

\* the last decode failed with a DeserializeError of the given text
Rejected(text) ==
    /\ ~res.ok
    /\ res.err.tag = "DeserializeError"
    /\ res.err.msg.text = text

\* C5: when the arity policy passes and element size times length exceeds
\* MAX_MESSAGE_LEN, the decode fails with the size error having read the four
\* length bytes only, started no element decode and reserved no storage
GuardBeforeElements ==
    (SeqDecode /\ HasHeader /\ Admits(PreLen) /\ Exceeds(last.typ, PreLen))
    => /\ Rejected(TooManyBytesText)
       /\ Consumed(4)
       /\ tries = 0
       /\ ~alloc.done

WitGuardBeforeElements ==
    /\ SeqDecode
    /\ origin.kind = "vec"
    /\ origin.typ = "u64"
    /\ last.typ = "u64"
    /\ PreLen = WFromNat(3)
    /\ Admits(PreLen)
    /\ SLen(src.data) = WFromNat(24)
    /\ Rejected(TooManyBytesText)

\* C6 as stated: a length field of 0xFFFFFFFF for 2-byte elements fails with
\* the size error under read_next_at_most with every ceiling and under
\* read_next_exact with every expected count, no byte after the length field
\* being read
HostileLenSizeError ==
    (last.op \in {"read_next_at_most", "read_next_exact"}
        /\ last.typ = "u16" /\ HasHeader /\ PreLen = U32_MAX)
    => /\ Rejected(TooManyBytesText)
       /\ Consumed(4)

\* C6 as amended: a length field of 0xFFFFFFFF for 2-byte elements fails with
\* a DeserializeError under read_next_at_most with every ceiling and under
\* read_next_exact with every expected count, no byte after the length field
\* being read: the size error when the ceiling or expected count is
\* 0xFFFFFFFF, and the arity error of the policy otherwise
HostileLenRejected ==
    (last.op \in {"read_next_at_most", "read_next_exact"}
        /\ last.typ = "u16" /\ HasHeader /\ PreLen = U32_MAX)
    => /\ ~res.ok
       /\ Consumed(4)
       /\ tries = 0
       /\ ~alloc.done
       /\ last.arg = U32_MAX
            => res.err = TooManyBytes(2, U32_MAX)
       /\ last.arg # U32_MAX
            => Rejected(TooManyText) \/ Rejected(IncorrectText)

WitHostileLenRejected ==
    /\ last.op = "read_next_at_most"
    /\ last.typ = "u16"
    /\ last.arg = U32_MAX
    /\ origin.kind = "raw"
    /\ origin.val = <<255, 255, 255, 255, 1, 2, 3>>
    /\ src.data = Flat(<<1, 2, 3>>)
    /\ Rejected(TooManyBytesText)

\* C7: read_next_exact fails with the wrong-item-count error exactly when
\* the length field differs from the expected count, and then it has read
\* the four length bytes only
ExactCount ==
    (last.op = "read_next_exact" /\ HasHeader)
    => /\ Rejected(IncorrectText) <=> PreLen # last.arg
       /\ Rejected(IncorrectText)
            => /\ res.err.msg.args = <<PreLen, last.arg>>
               /\ Consumed(4)
               /\ tries = 0

WitExactCount ==
    /\ last.op = "read_next_exact"
    /\ last.arg = W0
    /\ HasHeader
    /\ PreLen = WFromNat(2)
    /\ src.data # <<>>
    /\ Rejected(IncorrectText)

\* C8: read_next_at_most fails with the too-many-items error exactly when the
\* length field is above the ceiling, a ceiling of 0 included; otherwise the
\* arity check passes
AtMostPolicy ==
    (last.op = "read_next_at_most" /\ HasHeader)
    => /\ Rejected(TooManyText) <=> WLess(last.arg, PreLen)
       /\ ~WLess(last.arg, PreLen) => ~Rejected(IncorrectText)

\* C9: decoding an integer of width w fails with a ReadError when fewer than
\* w bytes are left, and otherwise succeeds and takes exactly w bytes
IntUnderflow ==
    last.op = "deserialize_int"
    => IF WLess(SLen(pre.data), WFromNat(WireWidth(last.typ)))
       THEN ~res.ok /\ res.err = ReadError(pre.end)
       ELSE res.ok /\ Consumed(WireWidth(last.typ))

WitIntUnderflow ==
    /\ last.op = "deserialize_int"
    /\ last.typ = "u32"
    /\ pre.data = Flat(<<0, 0, 1>>)
    /\ ~res.ok
    /\ res.err.tag = "ReadError"

\* the whole elements of width w among the bytes that followed the length
\* field in the source of the last decode, when these are fewer than 2^31
ElementsAfterHeader(w) == (WToNat(SLen(pre.data)) - 4) \div w

\* C10: once both checks passed, a decode of len elements either finds them
\* all and returns len elements, or returns the read error of the first
\* element the source could not give, having started no element decode
\* after that one
FirstErrorAbort ==
    (SeqDecode /\ alloc.done)
    => /\ alloc.cap = PreLen
       /\ IF WLeq(WFromNat(4 + WToNat(PreLen) * WireWidth(last.typ)),
                  SLen(pre.data))
          THEN /\ res.ok
               /\ VecLen(res.val) = PreLen
               /\ tries = WToNat(PreLen)
               /\ Consumed(4 + WToNat(PreLen) * WireWidth(last.typ))
          ELSE /\ ~res.ok
               /\ res.err = ReadError(pre.end)
               /\ tries = ElementsAfterHeader(WireWidth(last.typ)) + 1

WitFirstErrorAbort ==
    /\ SeqDecode
    /\ alloc.done
    /\ last.typ = "u16"
    /\ PreLen = WFromNat(3)
    /\ pre.end = "ConnectionAborted"
    /\ SLen(pre.data) = WFromNat(7)
    /\ tries = 2
    /\ res = Err(ReadError("ConnectionAborted"))

\* C12: consensus_serialize of an integer or of a vector of integers into a
\* growable in-memory buffer returns Ok, and serialize_to_vec does not panic
\* and returns the bytes that consensus_serialize writes for the value
InMemoryInfallible ==
    /\ (last.op \in {"serialize_int", "serialize_vec"} /\ sink.room = -1)
         => res = Ok(Unit)
    /\ last.op = "serialize_to_vec"
         => /\ res.ok
            /\ res.val = sink.data
            /\ wrote.kind = "int"
                 => res.val = Flat(to_be_bytes(wrote.typ, wrote.val))
            /\ wrote.kind = "vec"
                 => res.val = VecSerialize(wrote.typ, wrote.val, MemSink).fd.data

WitInMemoryInfallible ==
    /\ last.op = "serialize_to_vec"
    /\ wrote.kind = "vec"
    /\ wrote.typ = "u16"
    /\ wrote.val = VecOf(<<Nat2(1), Nat2(BYTE + 2)>>)
    /\ res.ok
    /\ Take(res.val, 9).got = <<0, 0, 0, 2, 0, 1, 1, 2>>

\* the call of task t run alone on the source it was given
Alone(t) ==
    CASE t.op = "deserialize_int" -> IntDeserialize(t.typ, t.fd0)
      [] t.op = "read_next_at_most" -> read_next_at_most(t.typ, t.fd0, t.arg)
      [] t.op = "read_next_exact" -> read_next_exact(t.typ, t.fd0, t.arg)

Decoding(t) ==
    t.op \in {"deserialize_int", "read_next_at_most", "read_next_exact"}

\* the number of values that w bytes spell
Spelled(w) ==
    CASE w = 1 -> WFromNat(BYTE)
      [] w = 2 -> WFromNat(BASE)
      [] w = 4 -> Pow2_32
      [] w = 8 -> Pow2_64

\* v is a value of the integer type typ
InRange(typ, v) ==
    IF Signed(typ)
    THEN IF v.neg THEN v.mag # W0 /\ WLeq(v.mag, <<0, 0, 0, BASE \div 2>>)
         ELSE WLess(v.mag, <<0, 0, 0, BASE \div 2>>)
    ELSE ~v.neg /\ WLess(v.mag, Spelled(WireWidth(typ)))

\* C11: two decodes of one integer type from the same bytes agree on
\* success and on the value; a decode from at least as many bytes as the
\* type is wide succeeds with a value of the type; and two different values
\* of one type are never written as the same bytes
DecodeUnambiguous ==
    \A i \in TaskIds, j \in TaskIds :
        /\ (tasks[i].pc = "done" /\ tasks[j].pc = "done"
                /\ tasks[i].op = "deserialize_int"
                /\ tasks[j].op = "deserialize_int"
                /\ tasks[i].typ = tasks[j].typ
                /\ tasks[i].fd0.data = tasks[j].fd0.data)
             => /\ tasks[i].res.ok = tasks[j].res.ok
                /\ tasks[i].res.ok => tasks[i].res.val = tasks[j].res.val
        /\ (tasks[i].pc = "done" /\ tasks[i].op = "deserialize_int"
                /\ WLeq(WFromNat(WireWidth(tasks[i].typ)),
                        SLen(tasks[i].fd0.data)))
             => /\ tasks[i].res.ok
                /\ InRange(tasks[i].typ, tasks[i].res.val)
        /\ (tasks[i].pc = "done" /\ tasks[j].pc = "done"
                /\ tasks[i].op = "serialize_int"
                /\ tasks[j].op = "serialize_int"
                /\ tasks[i].typ = tasks[j].typ
                /\ tasks[i].val # tasks[j].val)
             => tasks[i].out.data # tasks[j].out.data

WitDecodeUnambiguous ==
    /\ tasks[1].pc = "done"
    /\ tasks[2].pc = "done"
    /\ tasks[1].op = "serialize_int"
    /\ tasks[2].op = "serialize_int"
    /\ tasks[1].typ = "i64"
    /\ tasks[2].typ = "i64"
    /\ tasks[1].val = Nat2(1)
    /\ tasks[2].val = Neg(W1)
    /\ tasks[1].out.data = Flat(<<0, 0, 0, 0, 0, 0, 0, 1>>)
    /\ tasks[2].out.data = Flat(<<255, 255, 255, 255, 255, 255, 255, 255>>)

\* C20: a decode that ran beside another call, their reads interleaved in
\* any order, returns what it returns when run alone on its source and
\* leaves its source as it leaves it then
Reentrant ==
    \A i \in TaskIds :
        (tasks[i].pc = "done" /\ Decoding(tasks[i]))
        => /\ tasks[i].res = Alone(tasks[i]).res
           /\ tasks[i].fd = Alone(tasks[i]).fd

WitReentrant ==
    /\ tasks[1].pc = "done"
    /\ tasks[1].op = "read_next_at_most"
    /\ tasks[1].typ = "u8"
    /\ tasks[1].res = Ok(VecOf(<<Nat2(1), Nat2(2)>>))
    /\ tasks[1].fd.data = Flat(<<3>>)
    /\ tasks[2].pc = "items"
    /\ tasks[2].op = "read_next_exact"
    /\ tasks[2].todo = 1

\* the last conversion applied to the error in hand
Did(how) == conv.path # <<>> /\ conv.path[Len(conv.path)] = how

CostClass == {"CostOverflow", "CostBalanceExceeded", "MemoryBalanceExceeded"}

MaxCostError ==
    [enum |-> "ClarityError", tag |-> "CostError",
     args |-> <<ExecutionCost_max_value, ExecutionCost_max_value>>]

\* C13: a CheckError (a ParseError) converted to ClarityError gives
\* CostError(max, max) for CostOverflow and for MemoryBalanceExceeded,
\* CostError(a, b) for CostBalanceExceeded(a, b), and else Analysis(e)
\* (Parse(e)) with the error as it was
CostCollapse ==
    (Did("ClarityError::from(CheckError)")
        \/ Did("ClarityError::from(ParseError)"))
    => /\ conv.prev.val.err.tag \in {"CostOverflow", "MemoryBalanceExceeded"}
            => conv.val = MaxCostError
       /\ conv.prev.val.err.tag = "CostBalanceExceeded"
            => conv.val = [enum |-> "ClarityError", tag |-> "CostError",
                           args |-> conv.prev.val.err.args]
       /\ conv.prev.val.err.tag \notin CostClass
            => conv.val = [enum |-> "ClarityError",
                           tag  |-> IF conv.prev.typ = "CheckError"
                                    THEN "Analysis" ELSE "Parse",
                           args |-> <<conv.prev.val>>]

WitCostCollapse ==
    /\ Did("ClarityError::from(CheckError)")
    /\ conv.prev.val.err =
          [enum |-> "CheckErrors", tag |-> "MemoryBalanceExceeded",
           args |-> <<U64(9), U64(8)>>]
    /\ conv.prev.val.expressions.some
    /\ conv.val = MaxCostError

\* C14: CostErrors::CostBalanceExceeded(used, budget) converted to
\* CheckErrors, then to CheckError, then to ClarityError is
\* ClarityError::CostError(used, budget)
CostCollapseExact ==
    (conv.path = <<"CheckErrors::from(CostErrors)",
                   "CheckError::from(CheckErrors)",
                   "ClarityError::from(CheckError)">>
        /\ conv.orig.val.tag = "CostBalanceExceeded")
    => conv.val = [enum |-> "ClarityError", tag |-> "CostError",
                   args |-> <<conv.orig.val.args[1], conv.orig.val.args[2]>>]

WitCostCollapseExact ==
    /\ conv.path = <<"CheckErrors::from(CostErrors)",
                     "CheckError::from(CheckErrors)",
                     "ClarityError::from(CheckError)">>
    /\ conv.orig.val = [enum |-> "CostErrors", tag |-> "CostBalanceExceeded",
                        args |-> <<Cost(500), Cost(400)>>]
    /\ conv.val.args = <<[runtime |-> WFromNat(500)],
                         [runtime |-> WFromNat(400)]>>

\* C15: a DBError converted to MarfError is NotFoundError for NotFoundError,
\* SQLError(e) for SqliteError(e), and for every other variant
\* CorruptionError with the text the DBError displays; NotFoundError never
\* becomes CorruptionError
PersistenceToIndex ==
    Did("MarfError::from(DBError)")
    => /\ conv.val.enum = "MarfError"
       /\ conv.prev.val.tag = "NotFoundError"
            => conv.val.tag = "NotFoundError" /\ conv.val.args = <<>>
       /\ conv.prev.val.tag = "SqliteError"
            => conv.val.tag = "SQLError" /\ conv.val.args = conv.prev.val.args
       /\ conv.prev.val.tag \notin {"NotFoundError", "SqliteError"}
            => /\ conv.val.tag = "CorruptionError"
               /\ conv.val.args = <<[str |-> DBError_Display(conv.prev.val)]>>
       /\ (conv.prev.val.tag = "Corruption" /\ conv.val.tag = "CorruptionError")
            => conv.val.args = <<[str |-> "Database is corrupt"]>>

WitPersistenceToIndex ==
    /\ Did("MarfError::from(DBError)")
    /\ conv.prev.val = [enum |-> "DBError", tag |-> "NotFoundError",
                        args |-> <<>>]
    /\ conv.val = [enum |-> "MarfError", tag |-> "NotFoundError",
                   args |-> <<>>]

\* a payload that is a piece of text
IsText(x) == DOMAIN x = {"str"} \/ DOMAIN x = {"fmt", "args"}

\* e is NetworkError::ChainstateError carrying one piece of text
GenericChainstate(e) ==
    /\ DOMAIN e = {"enum", "tag", "args"}
    /\ e.enum = "NetworkError"
    /\ e.tag = "ChainstateError"
    /\ Len(e.args) = 1
    /\ IsText(e.args[1])

\* a ChainstateError that wraps an error of another layer turns into the
\* NetworkError that wraps the same error
PassedThrough ==
    /\ conv.prev.val.tag \in {"ClarityError", "DBError", "MARFError"}
         => conv.val = [enum |-> "NetworkError", tag |-> conv.prev.val.tag,
                        args |-> conv.prev.val.args]
    /\ conv.prev.val.tag = "NetError" => conv.val = conv.prev.val.args[1]

\* C16 as stated: a ChainstateError converted to NetworkError passes the
\* payload of ClarityError, DBError, MARFError and NetError through, and
\* every other variant becomes NetworkError::ChainstateError with a string
ChainstateToNetworkFour ==
    Did("NetworkError::from(ChainstateError)")
    => /\ PassedThrough
       /\ conv.prev.val.tag
              \notin {"ClarityError", "DBError", "MARFError", "NetError"}
            => GenericChainstate(conv.val)

\* C16 as amended: the payloads of ClarityError, DBError, MARFError and
\* NetError pass through, ReadError(e) and WriteError(e) become
\* NetworkError::ReadError(e) and NetworkError::WriteError(e), and every
\* other variant becomes NetworkError::ChainstateError with a string
ChainstateToNetwork ==
    Did("NetworkError::from(ChainstateError)")
    => /\ PassedThrough
       /\ conv.prev.val.tag \in {"ReadError", "WriteError"}
            => conv.val = [tag |-> conv.prev.val.tag,
                           io  |-> conv.prev.val.args[1]]
       /\ conv.prev.val.tag
              \notin {"ClarityError", "DBError", "MARFError", "NetError",
                      "ReadError", "WriteError"}
            => GenericChainstate(conv.val)

WitChainstateToNetwork ==
    /\ Did("NetworkError::from(ChainstateError)")
    /\ conv.prev.val.tag = "ReadError"
    /\ conv.val = [tag |-> "ReadError",
                   io  |-> [lib |-> "io", text |-> "unexpected end of file"]]

\* C17: the report of a ChainstateError has error "chainstate error" and as
\* reason the name of the variant, the same for every payload of the variant
ReasonCodeStable ==
    Did("ChainstateError::into_json")
    => /\ conv.val.error = "chainstate error"
       /\ conv.val.reason = conv.prev.val.tag
       /\ \A e \in ChainstateErrorVals :
            e.tag = conv.prev.val.tag
            => into_json(e).reason = conv.val.reason
       /\ conv.prev.val.tag = "NoSuchBlockError"
            => conv.val.reason = "NoSuchBlockError"

WitReasonCodeStable ==
    /\ Did("ChainstateError::into_json")
    /\ conv.prev.val = [enum |-> "ChainstateError", tag |-> "MemPoolError",
                        args |-> <<[str |-> "disk full"]>>]
    /\ conv.val.reason = "MemPoolError"
    /\ \E e \in ChainstateErrorVals :
        /\ e.tag = "MemPoolError"
        /\ e # conv.prev.val
        /\ into_json(e).reason_data # conv.val.reason_data

\* C18 as stated: a CheckErrors or a ParseError converted to
\* InterpreterError is Unchecked carrying the error
WrapUnchecked ==
    (Did("InterpreterError::from(CheckErrors)")
        \/ Did("InterpreterError::from(ParseError)"))
    => conv.val = [enum |-> "InterpreterError", tag |-> "Unchecked",
                   args |-> <<conv.prev.val>>]

\* C18 as amended: a CheckErrors converted to InterpreterError is Unchecked
\* carrying the error; a ParseError converted to InterpreterError is
\* Runtime(ASTError(e), None) carrying the error
WrapIntoInterpreter ==
    /\ Did("InterpreterError::from(CheckErrors)")
         => conv.val = [enum |-> "InterpreterError", tag |-> "Unchecked",
                        args |-> <<conv.prev.val>>]
    /\ Did("InterpreterError::from(ParseError)")
         => conv.val = [enum |-> "InterpreterError", tag |-> "Runtime",
                        args |-> <<[enum |-> "RuntimeErrorType",
                                    tag  |-> "ASTError",
                                    args |-> <<conv.prev.val>>],
                                   [some |-> FALSE]>>]

WitWrapIntoInterpreter ==
    /\ Did("InterpreterError::from(ParseError)")
    /\ conv.prev.val.err.tag = "IllegalVariableName"
    /\ conv.val.tag = "Runtime"
    /\ conv.val.args[1].args = <<conv.prev.val>>

\* the conversion named how applied to e
Apply(how, e) ==
    CASE how = "DBError::from(MarfError)" -> DBError_from_MarfError(e)
      [] how = "MarfError::from(DBError)" -> MarfError_from_DBError(e)
      [] how = "ChainstateError::from(DBError)" ->
            ChainstateError_from_DBError(e)
      [] how = "ChainstateError::from(MarfError)" ->
            ChainstateError_from_MarfError(e)
      [] how = "ChainstateError::from(ClarityError)" ->
            ChainstateError_from_ClarityError(e)
      [] how = "ChainstateError::from(NetworkError)" ->
            ChainstateError_from_NetworkError(e)
      [] how = "NetworkError::from(DBError)" -> NetworkError_from_DBError(e)

\* the wraps that keep the whole error
Wraps ==
    {"DBError::from(MarfError)", "ChainstateError::from(DBError)",
     "ChainstateError::from(MarfError)", "ChainstateError::from(ClarityError)",
     "ChainstateError::from(NetworkError)", "NetworkError::from(DBError)"}

\* no other error of the type converts by how to the error in hand
OnlySource(how) ==
    \A e \in ValsOf(conv.prev.typ) :
        e # conv.prev.val => Apply(how, e) # conv.val

\* C19 as stated: by each of the seven conversions, two different errors
\* never convert to the same error
WrapsInjective ==
    \A how \in Wraps \cup {"MarfError::from(DBError)"} :
        Did(how) => OnlySource(how)

\* C19 as amended: by each of the six conversions other than DBError to
\* MarfError, two different errors never convert to the same error; two
\* different DBErrors convert to the same MarfError exactly when neither is
\* NotFoundError or SqliteError and both display the same text
WrapsInjectiveButIndex ==
    /\ \A how \in Wraps : Did(how) => OnlySource(how)
    /\ Did("MarfError::from(DBError)")
         => \A e \in DBErrorVals :
               (e # conv.prev.val /\ MarfError_from_DBError(e) = conv.val)
               <=> /\ e # conv.prev.val
                   /\ e.tag \notin {"NotFoundError", "SqliteError"}
                   /\ conv.prev.val.tag \notin {"NotFoundError", "SqliteError"}
                   /\ DBError_Display(e) = DBError_Display(conv.prev.val)

WitWrapsInjectiveButIndex ==
    /\ Did("NetworkError::from(DBError)")
    /\ conv.prev.val = [enum |-> "DBError", tag |-> "Other",
                        args |-> <<[str |-> "Not implemented"]>>]
    /\ conv.val.args = <<conv.prev.val>>

\* e holds an IncomparableError
HoldsIncomparable(e) ==
    \/ e.tag = "Runtime" /\ e.args[1].tag = "JSONParseError"
    \/ e.tag = "Interpreter"
         /\ e.args[1].tag \in {"SqliteError", "MarfFailure", "DBError"}

\* C21 as stated: an InterpreterError equals every InterpreterError of the
\* same variant and payload, two InterpreterErrors of different variants are
\* unequal, and two Runtime errors are equal exactly when their
\* RuntimeErrorTypes are the same, whatever the stack traces
EqStructural ==
    Did("InterpreterError::eq")
    => /\ conv.prev.val.self = conv.prev.val.other => conv.val.bool
       /\ conv.prev.val.self.tag # conv.prev.val.other.tag => ~conv.val.bool
       /\ (conv.prev.val.self.tag = "Runtime"
              /\ conv.prev.val.other.tag = "Runtime")
            => (conv.val.bool
                  <=> conv.prev.val.self.args[1] = conv.prev.val.other.args[1])

\* C21 as amended: the same, for InterpreterErrors that hold no
\* IncomparableError; one that holds an IncomparableError is unequal to
\* every InterpreterError, itself included
EqButIncomparable ==
    Did("InterpreterError::eq")
    => /\ (conv.prev.val.self = conv.prev.val.other
              /\ ~HoldsIncomparable(conv.prev.val.self))
            => conv.val.bool
       /\ (HoldsIncomparable(conv.prev.val.self)
              \/ HoldsIncomparable(conv.prev.val.other))
            => ~conv.val.bool
       /\ conv.prev.val.self.tag # conv.prev.val.other.tag => ~conv.val.bool
       /\ (conv.prev.val.self.tag = "Runtime"
              /\ conv.prev.val.other.tag = "Runtime"
              /\ ~HoldsIncomparable(conv.prev.val.self))
            => (conv.val.bool
                  <=> conv.prev.val.self.args[1] = conv.prev.val.other.args[1])

WitEqButIncomparable ==
    /\ Did("InterpreterError::eq")
    /\ conv.prev.val.self =
          [enum |-> "InterpreterError", tag |-> "Runtime",
           args |-> <<[enum |-> "RuntimeErrorType", tag |-> "DivisionByZero",
                       args |-> <<>>],
                      [some |-> FALSE]>>]
    /\ conv.prev.val.other.tag = "Runtime"
    /\ conv.prev.val.other.args[1] = conv.prev.val.self.args[1]
    /\ conv.prev.val.other.args[2].some
    /\ conv.val.bool

\* C22: a CheckErrors of the cost class wrapped in
\* InterpreterError::Unchecked converts to the ClarityError that it converts
\* to wrapped in a CheckError
CostCollapseSamePath ==
    (Did("ClarityError::from(InterpreterError)")
        /\ conv.prev.val.tag = "Unchecked"
        /\ conv.prev.val.args[1].tag \in CostClass)
    => conv.val = ClarityError_from_CheckError(
                      CheckError_from_CheckErrors(conv.prev.val.args[1]))

\* n conversions, from NetworkError to ChainstateError and back in turn
NetChain(n) ==
    [i \in 1..n |-> IF i % 2 = 1 THEN "ChainstateError::from(NetworkError)"
                    ELSE "NetworkError::from(ChainstateError)"]

\* C25: a NetworkError converted to ChainstateError and back is the
\* NetworkError itself, and converted on in turn it is never nested deeper
\* than NetError of itself
NetRoundTrip ==
    (conv.orig.typ = "NetworkError" /\ conv.path # <<>>
        /\ conv.path = NetChain(Len(conv.path)))
    => IF Len(conv.path) % 2 = 0
       THEN conv.val = conv.orig.val
       ELSE conv.val = [enum |-> "ChainstateError", tag |-> "NetError",
                        args |-> <<conv.orig.val>>]

WitNetRoundTrip ==
    /\ conv.path = NetChain(2)
    /\ conv.orig.val = [enum |-> "NetworkError", tag |-> "ChainstateError",
                        args |-> <<[str |-> "disk full"]>>]
    /\ conv.prev.val.tag = "NetError"
    /\ conv.val = conv.orig.val

\* C26: an InterpreterError converted to ChainstateError is what it gives
\* converted to ClarityError and from there to ChainstateError
InterpreterSamePath ==
    Did("ChainstateError::from(InterpreterError)")
    => conv.val = ChainstateError_from_ClarityError(
                      ClarityError_from_InterpreterError(conv.prev.val))

\* C27: rusqlite's QueryReturnedNoRows converted to MarfError, directly or
\* by way of DBError, is MarfError::NotFoundError
NoRowsNotFound ==
    (conv.orig.typ = "rusqlite::Error"
        /\ conv.orig.val = QueryReturnedNoRows
        /\ conv.path \in {<<"MarfError::from(rusqlite::Error)">>,
                          <<"DBError::from(rusqlite::Error)",
                            "MarfError::from(DBError)">>})
    => conv.val = [enum |-> "MarfError", tag |-> "NotFoundError",
                   args |-> <<>>]

\* the pair that from_cost_error reports for the arguments a
ReportedPair(a) ==
    IF a.err.tag = "CostBalanceExceeded" THEN a.err.args
    ELSE <<a.context.total, a.context.limit>>

\* C28: from_cost_error returns CostOverflowError(cost_before, after,
\* budget), the pair being that of CostBalanceExceeded(used, budget) and for
\* every other cost error the total and the limit of the context; converted
\* to ClarityError it is CostError(after, budget)
FromCostErrorPair ==
    /\ Did("ChainstateError::from_cost_error")
         => conv.val = [enum |-> "ChainstateError",
                        tag  |-> "CostOverflowError",
                        args |-> <<conv.prev.val.cost_before>>
                                    \o ReportedPair(conv.prev.val)]
    /\ conv.path = <<"ChainstateError::from_cost_error",
                     "ClarityError::from(ChainstateError)">>
         => conv.val = [enum |-> "ClarityError", tag |-> "CostError",
                        args |-> ReportedPair(conv.orig.val)]

WitFromCostErrorPair ==
    /\ conv.path = <<"ChainstateError::from_cost_error",
                     "ClarityError::from(ChainstateError)">>
    /\ conv.orig.val.err.tag = "CostBalanceExceeded"
    /\ conv.orig.val.err.args = <<[runtime |-> WFromNat(500)],
                                  [runtime |-> WFromNat(400)]>>
    /\ conv.orig.val.context.total = [runtime |-> WFromNat(400)]
    /\ conv.orig.val.cost_before = [runtime |-> WFromNat(400)]
    /\ conv.val.args = conv.orig.val.err.args

\* the lookup failed with Unchecked of the CheckErrors variant tag
Missing(found, tag) ==
    /\ ~found.ok
    /\ found.err.tag = "Unchecked"
    /\ found.err.args[1].tag = tag

\* the outcome of a lookup that found something, or failed with another error
Outcome(found) ==
    IF found.ok
    THEN [ok |-> TRUE, val |-> [some |-> TRUE, v |-> found.val]]
    ELSE [ok  |-> FALSE,
          err |-> [enum |-> "ChainstateError", tag |-> "ClarityError",
                   args |-> <<[enum |-> "ClarityError",
                               tag  |-> "Interpreter",
                               args |-> <<found.err>>]>>]]

\* C29: get_contract returns Ok(Some(c)) when the lookup succeeds, Ok(None)
\* exactly when it fails with Unchecked(NoSuchContract), and else
\* Err(ChainstateError::ClarityError(Interpreter(e))) with the error of the
\* lookup; get_data_var does the same with Unchecked(NoSuchDataVariable)
LookupOutcomes ==
    /\ Did("StacksChainState::get_contract")
         => /\ conv.val = [ok |-> TRUE, val |-> [some |-> FALSE]]
                 <=> Missing(conv.prev.val, "NoSuchContract")
            /\ ~Missing(conv.prev.val, "NoSuchContract")
                 => conv.val = Outcome(conv.prev.val)
    /\ Did("StacksChainState::get_data_var")
         => /\ conv.val = [ok |-> TRUE, val |-> [some |-> FALSE]]
                 <=> Missing(conv.prev.val, "NoSuchDataVariable")
            /\ ~Missing(conv.prev.val, "NoSuchDataVariable")
                 => conv.val = Outcome(conv.prev.val)

WitLookupOutcomes ==
    /\ Did("StacksChainState::get_contract")
    /\ Missing(conv.prev.val, "NoSuchContract")
    /\ conv.val = [ok |-> TRUE, val |-> [some |-> FALSE]]

\* C30: every ChainstateError has a reason code, and no ChainstateError of
\* another variant has the same one
ReasonCodesDistinct ==
    Did("ChainstateError::into_json")
    => /\ Len(conv.val.reason) > 0
       /\ \A e \in ChainstateErrorVals :
            e.tag # conv.prev.val.tag
            => ChainstateError_name(e) # conv.val.reason

WitReasonCodesDistinct ==
    /\ Did("ChainstateError::into_json")
    /\ conv.prev.val.tag = "MARFError"
    /\ conv.val.reason = "MARFError"
    /\ \E e \in ChainstateErrorVals : e.tag = "DBError"

\* size times len, by adding len size times
RECURSIVE Times(_, _)
Times(size, len) ==
    IF size = 0 THEN W0 ELSE WAdd(len, Times(size - 1, len))

\* C23: a sequence decode whose length field the arity policy admits fails
\* with the size error exactly when element size times the length, computed
\* without wrap-around, is greater than MAX_MESSAGE_LEN: a product equal to
\* MAX_MESSAGE_LEN passes, a product one element larger does not, and so
\* does no length whose product is a small number only modulo 2^32
SizeGuardExact ==
    (SeqDecode /\ HasHeader /\ Admits(PreLen))
    => /\ Rejected(TooManyBytesText)
            <=> WLess(WFromNat(MAX_MESSAGE_LEN),
                      Times(WireWidth(last.typ), PreLen))
       /\ Times(WireWidth(last.typ), PreLen) = WFromNat(MAX_MESSAGE_LEN)
            => ~Rejected(TooManyBytesText)
       /\ (WLess(WFromNat(MAX_MESSAGE_LEN), Times(WireWidth(last.typ), PreLen))
              /\ WLeq(WTrunc32(Times(WireWidth(last.typ), PreLen)),
                      WFromNat(MAX_MESSAGE_LEN)))
            => Rejected(TooManyBytesText)

WitSizeGuardExact ==
    /\ SeqDecode
    /\ HasHeader
    /\ Admits(PreLen)
    /\ last.typ = "u64"
    /\ PreLen = <<0, BASE \div 8>>
    /\ WTrunc32(Times(8, PreLen)) = W0
    /\ Rejected(TooManyBytesText)
    /\ Consumed(4)

\* the bytes of a vector of n elements of type typ on the wire
FrameBytes(typ, n) == WAdd(WFromNat(4), WMulSmall(WireWidth(typ), n))

\* C24: a sequence decode that succeeds takes 4 + len * w bytes from the
\* source and leaves the bytes behind them, so that of two vectors written
\* one after the other the first decode returns the first and the second
\* decode the second
ExactConsumption ==
    (origin.kind = "frames" /\ ndec > 0)
    => /\ res = Ok(tasks[ndec].val)
       /\ SLen(pre.data)
            = WAdd(SLen(src.data),
                   FrameBytes(tasks[ndec].typ, VecLen(tasks[ndec].val)))
       /\ ndec = 1
            => /\ SLen(src.data)
                    = WAdd(FrameBytes(tasks[2].typ, VecLen(tasks[2].val)),
                           WFromNat(Len(origin.val)))
               /\ Take(src.data, 4).got
                    = to_be_bytes("u32", Pos(VecLen(tasks[2].val)))
       /\ ndec = 2
            => Take(src.data, MaxTail + 1).got = origin.val

WitExactConsumption ==
    /\ origin.kind = "frames"
    /\ ndec = 2
    /\ tasks[1] = [typ |-> "u8", val |-> VecOf(<<Nat2(1), Nat2(2)>>)]
    /\ tasks[2] = [typ |-> "u16", val |-> VecOf(<<Nat2(BYTE + 2)>>)]
    /\ Take(pre.data, 7).got = <<0, 0, 0, 1, 1, 2, 1>>
    /\ origin.val = <<1>>
    /\ res = Ok(tasks[2].val)
    /\ SLen(src.data) = W1

====
